---- MODULE Spec2Model ----
(***************************************************************************)
(* Model of the mailbox synchronisation of audkus/mail_backup              *)
(* (src/main.py): the sync run `main`, its store (SQLite tables) and the   *)
(* mail server it reads.                                                   *)
(*                                                                         *)
(* Text values (addresses, Message-IDs) are sequences of one-character     *)
(* strings, so that strip / lower / split are computed as the code         *)
(* computes them.                                                          *)
(***************************************************************************)
EXTENDS Integers, Sequences, FiniteSets, Bags, TLC

(***************************************************************************)
(* Bounds of the model                                                     *)
(***************************************************************************)
\* highest UID the first folder of the modelled server can hold
MaxUid == 3
\* highest UID a folder listed after the first one can hold
MaxLaterUid == 1
\* number of sync runs (process starts of main) in one behaviour
MaxRuns == 2
\* number of failures (of the network, the server, a message or the store)
\* that the runs of one behaviour can meet; it also bounds the end-of-run
\* retry loop, which has no bound of its own in the code
MaxFaults == 3
\* main passes batch_size=10 (src/main.py:599); the model uses a smaller
\* batch so that a folder of MaxUid messages is split into several batches
BatchSize == 2

\* number of runs of the maintenance scripts in one behaviour
MaxToolRuns == 2
\* number of items of a recipient value given to parse_recipients
MaxRcpt == 2
\* length of the UID lists given to the partitioning
MaxSplitLen == 4
\* batch sizes given to the partitioning
MaxBatchSize == 3
\* number of runs, and of failures, in one behaviour of the sync that is
\* followed beyond a run that halted on a UIDVALIDITY mismatch
MaxSkewRuns == 3
MaxSkewFaults == 2
\* the targeted recovery: length of the list of missing UIDs, number of
\* failures one behaviour can meet, and the batch size, which is 20 in the
\* code (src/recover_missing_inbox_mails.py:145) and smaller here so that a
\* list of MaxMissing UIDs is split into several batches
MaxMissing == 4
MaxRecoverFaults == 3
RecoverBatchSize == 2

\* src/main.py:572
retry_limit == 3

\* src/recover_missing_inbox_mails.py:149
recover_retry_limit == 3

\* Python's None, and a value that is not None (Optional[...])
None == <<>>
Some(x) == <<x>>
ValueOf(o) == o[1]

(***************************************************************************)
(* Text helpers                                                            *)
(***************************************************************************)
\* str.lower() on one character, over the alphabet of the modelled messages
LowerCh(c) ==
  CASE c = "A" -> "a"
    [] c = "B" -> "b"
    [] c = "C" -> "c"
    [] OTHER   -> c

\* str.lower()
Lower(s) == [i \in 1..Len(s) |-> LowerCh(s[i])]

RECURSIVE LStrip(_)
LStrip(s) == IF s # <<>> /\ Head(s) = " " THEN LStrip(Tail(s)) ELSE s

RECURSIVE RStrip(_)
RStrip(s) ==
  IF s # <<>> /\ s[Len(s)] = " " THEN RStrip(SubSeq(s, 1, Len(s) - 1)) ELSE s

\* str.strip()
Strip(s) == RStrip(LStrip(s))

\* re.split(r'[;,]', s): the pieces of s between the delimiters
RECURSIVE SplitFrom(_, _, _)
SplitFrom(s, i, cur) ==
  IF i > Len(s) THEN <<cur>>
  ELSE IF s[i] = "," \/ s[i] = ";"
       THEN <<cur>> \o SplitFrom(s, i + 1, <<>>)
       ELSE SplitFrom(s, i + 1, Append(cur, s[i]))

Split(s) == SplitFrom(s, 1, <<>>)

\* ", ".join(list)
RECURSIVE Join(_)
Join(l) ==
  IF l = <<>> THEN <<>>
  ELSE IF Len(l) = 1 THEN l[1]
       ELSE l[1] \o <<",", " ">> \o Join(Tail(l))

RECURSIVE SeqToSet(_)
SeqToSet(s) == IF s = <<>> THEN {} ELSE {Head(s)} \cup SeqToSet(Tail(s))

\* the elements of the set S of integers as an ascending sequence
RECURSIVE SortedSeq(_)
SortedSeq(S) ==
  IF S = {} THEN <<>>
  ELSE LET m == CHOOSE x \in S : \A y \in S : x <= y
       IN <<m>> \o SortedSeq(S \ {m})

SetMax(S) == CHOOSE x \in S : \A y \in S : y <= x

(***************************************************************************)
(* The mail server: folders and messages                                   *)
(***************************************************************************)
\* mailbox.folder.list() of the modelled account, in listing order
folders_to_process == <<"INBOX", "Trash", "Sent">>

Folders == SeqToSet(folders_to_process)

\* folder.lower(), src/main.py:568
LowerName(f) ==
  CASE f = "INBOX" -> "inbox"
    [] f = "Trash" -> "trash"
    [] f = "Sent"  -> "sent"
    [] OTHER       -> f

\* src/main.py:567
skip_folders ==
  {"[gmail]/spam", "[gmail]/trash", "inbox.spam", "inbox.trash", "junk", "trash"}

\* variant of Excluded: the name is compared as the server gives it
Excluded_CaseSensitive(f) == f \in skip_folders

\* src/main.py:568: the folder is left out of the run
Excluded(f) == LowerName(f) \in skip_folders

UIDs == 1..MaxUid

\* number of messages a folder of the modelled server can hold
Capacity(f) == IF f = folders_to_process[1] THEN MaxUid ELSE MaxLaterUid

\* UIDVALIDITY values the server can report
UidValidities == {100, 200}

a_x == <<"a", "@", "x">>
A_x == <<"A", "@", "x">>
b_x == <<"b", "@", "x">>
B_x == <<"B", "@", "x">>
b_x_sp == <<"b", "@", "x", " ">>
c_x == <<"c", "@", "x">>

\* The parsed message with UID u (MailMessage: from_, to, cc, bcc and the
\* Message-ID header, None when the header is missing).  The content of a
\* message depends on its UID only.
Msg(u) ==
  CASE u = 1 -> [from_ |-> a_x, to |-> <<B_x, b_x_sp>>, cc |-> <<>>,
                 bcc |-> <<>>, message_id |-> Some(<<"m", "1">>)]
    [] u = 2 -> [from_ |-> A_x, to |-> <<c_x>>, cc |-> <<a_x>>,
                 bcc |-> <<>>, message_id |-> None]
    [] u = 3 -> [from_ |-> <<>>, to |-> <<b_x>>, cc |-> <<>>,
                 bcc |-> <<c_x>>, message_id |-> Some(<<"m", "3">>)]
    [] OTHER -> [from_ |-> b_x, to |-> <<a_x>>, cc |-> <<>>,
                 bcc |-> <<>>, message_id |-> Some(<<"m">>)]

(***************************************************************************)
(* State                                                                   *)
(***************************************************************************)
VARIABLES
  \* the mail server
  server,            \* folder -> set of UIDs of its messages
  serverUv,          \* folder -> UIDVALIDITY the status reports
  to_type,           \* type of the sequences MailMessage.to, .cc and .bcc
  uid_star,          \* how the server answers a UID range n:* above its UIDs
  \* the store (email_tracking.db); a table is a bag of rows
  folder_uidvalidity,\* folder -> stored uidvalidity, or None
  downloaded_emails, \* bag of rows, PRIMARY KEY (uid, folder)
  email,             \* set of rows, email_pk AUTOINCREMENT
  email_address,     \* set of rows [email_id, email], email UNIQUE
  email_participant, \* bag of rows <<email_pk, email_id, role>>
  \* globals and locals of main
  failed_emails,     \* the global list of (uid, folder)
  failed_folders,
  pc,                \* position of the run in main
  mailbox,           \* the session in use: the number of logins of the run
  fidx,              \* index of `folder` in folders_to_process
  attempt,
  max_uid,
  all_uids,
  existing_uids,
  uid_batches,
  bidx,              \* index of `batch` in uid_batches
  messages,
  midx,              \* index of `msg` in messages
  email_pk,
  ridx,              \* index of the end-of-run retry loop in failed_emails
  \* history of the behaviour, read by the properties only
  runNo,             \* number of runs started
  clean,             \* the current run met no failure and no skew
  prevClean,         \* the previous run ended at line 682 with clean
  prevKilled,        \* the previous run was terminated, with clean
  mailboxChanged,    \* the server changed since the last run ended
  sameMailbox,       \* the current run sees the mailbox of the previous run
  snapshot,          \* the store when the current run started
  skewed,            \* the current run met a UIDVALIDITY mismatch
  retried,           \* bag of the (uid, folder) retried at the end of the run
  msgFailed,         \* UIDs of `messages` whose processing failed
  everFailed,        \* (uid, folder) that failed in the folder loop of the run
  lastCheck,         \* the last call of ensure_folder_and_uidvalidity
  validated,         \* folders whose UIDVALIDITY check succeeded in the run
  attempted,         \* folders for which an attempt started in the run
  failedAttempts,    \* folder -> number of its attempts that failed
  faults,            \* number of failures the runs have met
  toolsRun,          \* the maintenance scripts run so far, in order
  last_fetch,        \* the criteria of the last fetch given to the server
  halted,            \* folders at which an earlier run halted on a mismatch
  horizon,           \* numbers of runs and of failures the behaviour has
  \* the locals of recover_missing_inbox_mails.main, and its attempts so far
  recover,
  \* the recipient value given to the recipient normalisation, and its result
  rcpt_in,
  rcpt_out,
  \* the arguments given to split_into_batches, and its result
  split_in,
  split_out

storeVars ==
  <<folder_uidvalidity, downloaded_emails, email, email_address,
    email_participant>>

serverVars == <<server, serverUv, to_type, uid_star>>

localVars ==
  <<pc, mailbox, fidx, attempt, max_uid, all_uids, existing_uids, uid_batches, bidx,
    messages, midx, email_pk, ridx>>

histVars ==
  <<runNo, clean, prevClean, prevKilled, mailboxChanged, sameMailbox, snapshot, skewed,
    retried, msgFailed, everFailed, lastCheck, validated, attempted,
    failedAttempts, faults, toolsRun, last_fetch, halted, horizon>>

normVars == <<rcpt_in, rcpt_out>>

splitVars == <<split_in, split_out>>

vars ==
  <<server, serverUv, to_type, uid_star, folder_uidvalidity,
    downloaded_emails, email,
    email_address, email_participant, failed_emails, failed_folders, pc,
    mailbox, fidx, attempt, max_uid, all_uids, existing_uids, uid_batches, bidx,
    messages, midx, email_pk, ridx, runNo, clean, prevClean, prevKilled,
    mailboxChanged,
    sameMailbox, snapshot, skewed, retried, msgFailed, everFailed, lastCheck,
    validated, attempted, failedAttempts,
    faults, toolsRun, last_fetch, halted, horizon, recover, rcpt_in,
    rcpt_out, split_in, split_out>>

\* the whole store as one value
Store ==
  [uidvalidity |-> folder_uidvalidity, downloaded |-> downloaded_emails,
   email |-> email, address |-> email_address,
   participant |-> email_participant]

(***************************************************************************)
(* Store operations                                                        *)
(***************************************************************************)
\* rows of downloaded_emails of one folder
RowsOf(tbl, f) == {r \in BagToSet(tbl) : r.folder = f}

\* variant of get_max_uid: the query has no WHERE folder = ?
get_max_uid_AnyFolder(tbl, f) ==
  IF BagToSet(tbl) = {} THEN None
  ELSE Some(SetMax({r.uid : r \in BagToSet(tbl)}))

\* SELECT MAX(CAST(uid AS INTEGER)) FROM downloaded_emails WHERE folder = ?
\* (a UID is kept as its number, which is what the CAST makes of the stored
\* numeral)
get_max_uid(tbl, f) ==
  IF RowsOf(tbl, f) = {} THEN None
  ELSE Some(SetMax({r.uid : r \in RowsOf(tbl, f)}))

\* SELECT uid FROM downloaded_emails WHERE folder = ?
get_existing_uids(tbl, f) == {r.uid : r \in RowsOf(tbl, f)}

\* SELECT uidvalidity FROM folder_uidvalidity WHERE folder = ?
get_uidvalidity(tbl, f) == tbl[f]

\* INSERT OR REPLACE INTO folder_uidvalidity (folder, uidvalidity)
set_uidvalidity(tbl, f, v) == [tbl EXCEPT ![f] = Some(v)]

\* the row main passes to mark_email_downloaded for message u of folder f
DownloadedRow(u, f) ==
  [uid |-> u, folder |-> f, sender |-> Msg(u).from_,
   recipients |-> Join(Msg(u).to), cc |-> Join(Msg(u).cc),
   bcc |-> Join(Msg(u).bcc), message_id |-> Msg(u).message_id]

\* variant of mark_email_downloaded: a plain INSERT into a table without
\* the key
mark_email_downloaded_NoKey(tbl, row) == tbl (+) SetToBag({row})

\* INSERT OR IGNORE INTO downloaded_emails: PRIMARY KEY (uid, folder)
mark_email_downloaded(tbl, row) ==
  IF \E r \in BagToSet(tbl) : r.uid = row.uid /\ r.folder = row.folder
  THEN tbl
  ELSE tbl (+) SetToBag({row})

\* INSERT OR IGNORE INTO email: the table has no key but email_pk, which the
\* insert does not give, so that the row is always inserted
InsertEmail(tbl, u, f, mid) ==
  tbl \cup {[email_pk |-> Cardinality(tbl) + 1, uid |-> u, folder |-> f,
             message_id |-> mid]}

\* SELECT email_pk FROM email WHERE uid = ? AND folder = ? AND message_id = ?
\* (a NULL message_id equals nothing)
SelectEmailPk(tbl, u, f, mid) ==
  IF mid = None THEN {}
  ELSE {r.email_pk : r \in {x \in tbl : x.uid = u /\ x.folder = f
                                          /\ x.message_id = mid}}

\* variant of get_or_create_email_address: the address is looked up and
\* stored as it is given
get_or_create_email_address_AsGiven(tbl, addr) ==
  IF addr = <<>> THEN [tbl |-> tbl, id |-> None]
  ELSE LET hit == {r \in tbl : r.email = addr}
       IN IF hit # {}
          THEN [tbl |-> tbl, id |-> Some((CHOOSE r \in hit : TRUE).email_id)]
          ELSE [tbl |-> tbl \cup {[email_id |-> Cardinality(tbl) + 1,
                                   email |-> addr]},
                id |-> Some(Cardinality(tbl) + 1)]

\* get_or_create_email_address: the table after the call and the id returned
\* (None for an empty address)
get_or_create_email_address(tbl, addr) ==
  IF addr = <<>> THEN [tbl |-> tbl, id |-> None]
  ELSE LET e == Lower(Strip(addr))
           hit == {r \in tbl : r.email = e}
       IN IF hit # {}
          THEN [tbl |-> tbl, id |-> Some((CHOOSE r \in hit : TRUE).email_id)]
          ELSE [tbl |-> tbl \cup {[email_id |-> Cardinality(tbl) + 1,
                                   email |-> e]},
                id |-> Some(Cardinality(tbl) + 1)]

\* [e.strip() for e in pieces if e.strip()]
RECURSIVE StripNonEmpty(_)
StripNonEmpty(l) ==
  IF l = <<>> THEN <<>>
  ELSE IF Strip(Head(l)) # <<>>
       THEN <<Strip(Head(l))>> \o StripNonEmpty(Tail(l))
       ELSE StripNonEmpty(Tail(l))

\* A Python value given to parse_recipients: a str (val is its text) or a
\* list or a tuple of str (val is the sequence of its items).
PyStr(s) == [type |-> "str", val |-> s]

PySeq(t, l) == [type |-> t, val |-> l]

\* the types of sequence in which the mail client can give the recipients of
\* a message (MailMessage.to, .cc, .bcc)
SeqTypes == {"list", "tuple"}

\* src/main.py:93-96: the loop over the items of a list
RECURSIVE ParseItems(_)
ParseItems(l) ==
  IF l = <<>> THEN <<>>
  ELSE StripNonEmpty(Split(Head(l))) \o ParseItems(Tail(l))

\* parse_recipients (src/main.py): an empty value gives [], a list is parsed
\* item by item, a str is split, and a value of another type gives []
parse_recipients(s) ==
  IF s.val = <<>> THEN <<>>
  ELSE IF s.type = "list" THEN ParseItems(s.val)
  ELSE IF s.type = "str" THEN StripNonEmpty(Split(s.val))
  ELSE <<>>

\* variant of InsertParticipant: a plain INSERT into a table without the key
InsertParticipant_NoIgnore(tbl, row) == tbl (+) SetToBag({row})

\* INSERT OR IGNORE INTO email_participant: PRIMARY KEY of the three columns
InsertParticipant(tbl, row) ==
  IF BagIn(row, tbl) THEN tbl ELSE tbl (+) SetToBag({row})

\* add_participant on the pair st = [address, participant] of tables
add_participant(st, pk, addr, role) ==
  LET got == get_or_create_email_address(st.address, addr)
  IN IF got.id = None
     THEN [address |-> got.tbl, participant |-> st.participant]
     ELSE [address |-> got.tbl,
           participant |-> InsertParticipant(st.participant,
                                             <<pk, ValueOf(got.id), role>>)]

\* add_participant for every address of the list l, in order
RECURSIVE AddAll(_, _, _, _)
AddAll(st, pk, l, role) ==
  IF l = <<>> THEN st
  ELSE AddAll(add_participant(st, pk, Head(l), role), pk, Tail(l), role)

\* src/main.py:630-636: the sender, then to, cc and bcc, which the mail
\* client gives as sequences of type t
AddParticipants(st, pk, u, t) ==
  LET s1 == add_participant(st, pk, Msg(u).from_, "from")
      s2 == AddAll(s1, pk, parse_recipients(PySeq(t, Msg(u).to)), "to")
      s3 == AddAll(s2, pk, parse_recipients(PySeq(t, Msg(u).cc)), "cc")
  IN AddAll(s3, pk, parse_recipients(PySeq(t, Msg(u).bcc)), "bcc")

\* variant of split_into_batches: the range of the slices ends before the
\* rest of the list
split_into_batches_FullOnly(uids, n) ==
  [k \in 1..(Len(uids) \div n) |-> SubSeq(uids, (k - 1) * n + 1, k * n)]

\* split_into_batches
RECURSIVE split_into_batches(_, _)
split_into_batches(uids, n) ==
  IF uids = <<>> THEN <<>>
  ELSE IF Len(uids) <= n THEN <<uids>>
       ELSE <<SubSeq(uids, 1, n)>>
            \o split_into_batches(SubSeq(uids, n + 1, Len(uids)), n)

\* variant of log_error: the error is written to error.log only
log_error_NoAppend(q, u, f) == q

\* log_error: the (uid, folder) is appended to the global failed_emails
log_error(q, u, f) == Append(q, <<u, f>>)

(***************************************************************************)
(* The mail capability                                                     *)
(***************************************************************************)
\* variant of FetchGreater: the range starts at max_uid + 2
FetchGreater_FromNextButOne(srv, f, m) == SortedSeq({u \in srv[f] : u >= m + 2})

\* variant of FetchGreater: the range starts at max_uid
FetchGreater_FromMax(srv, f, m) == SortedSeq({u \in srv[f] : u >= m})

\* mailbox.fetch(AND(uid=f"{max_uid + 1}:*")): the UIDs from max_uid + 1 on
\* (the "greater-than" predicate of the mail capability)
FetchGreater(srv, f, m) == SortedSeq({u \in srv[f] : u >= m + 1})

\* mailbox.fetch(AND(uid=f"{max_uid + 1}:*")) as the server answers it.  A
\* server that keeps to the "greater-than" predicate gives the UIDs from
\* max_uid + 1 on.  A server that reads the range as RFC 3501 defines it
\* takes * for the highest UID of the folder and the range in either
\* direction, so that a range above every UID gives the highest UID.
FetchRange(srv, f, m) ==
  IF uid_star = "highest" /\ srv[f] # {} /\ m + 1 > SetMax(srv[f])
  THEN <<SetMax(srv[f])>>
  ELSE FetchGreater(srv, f, m)

\* mailbox.fetch(AND(all=True)) without reverse=True: the messages in the
\* order of the folder, which is the order of their UIDs
FetchAll(srv, f) == SortedSeq(srv[f])

\* the criteria of a fetch
AllCriteria == [criteria |-> "all", uids |-> <<>>]

RangeCriteria(m) == [criteria |-> "uid_range", uids |-> <<m + 1>>]

UidCriteria(l) == [criteria |-> "uid", uids |-> l]

NoFetch == [criteria |-> "none", uids |-> <<>>]

\* mailbox.fetch(AND(uid=batch)): the messages of the batch the folder holds
FetchBatch(srv, f, batch) ==
  SortedSeq({u \in srv[f] : u \in SeqToSet(batch)})

(***************************************************************************)
(* The Sync State Tracker                                                  *)
(***************************************************************************)
\* variant of ensure_folder_and_uidvalidity: a changed value is stored
ensure_folder_and_uidvalidity_Overwrites(tbl, f, current) ==
  [tbl |-> set_uidvalidity(tbl, f, current), result |-> "ok"]

\* variant of ensure_folder_and_uidvalidity: a mismatch is raised after the
\* stored value was replaced by the value of the server
ensure_folder_and_uidvalidity_SkewUpdates(tbl, f, current) ==
  IF get_uidvalidity(tbl, f) = None
  THEN [tbl |-> set_uidvalidity(tbl, f, current), result |-> "ok"]
  ELSE IF get_uidvalidity(tbl, f) # Some(current)
       THEN [tbl |-> set_uidvalidity(tbl, f, current), result |-> "skew"]
       ELSE [tbl |-> tbl, result |-> "ok"]

\* variant of ensure_folder_and_uidvalidity: the test for a stored value is
\* missing from the comparison
ensure_folder_and_uidvalidity_NoneIsSkew(tbl, f, current) ==
  IF get_uidvalidity(tbl, f) # Some(current)
  THEN [tbl |-> tbl, result |-> "skew"]
  ELSE [tbl |-> tbl, result |-> "ok"]

\* ensure_folder_and_uidvalidity, given the UIDVALIDITY `current` of the
\* folder status: the folder_uidvalidity table after the call and the
\* outcome, "ok" or "skew" (the RuntimeError of line 545)
ensure_folder_and_uidvalidity(tbl, f, current) ==
  LET stored == get_uidvalidity(tbl, f)
  IN IF stored # None /\ stored # Some(current)
     THEN [tbl |-> tbl, result |-> "skew"]
     ELSE IF stored = None
          THEN [tbl |-> set_uidvalidity(tbl, f, current), result |-> "ok"]
          ELSE [tbl |-> tbl, result |-> "ok"]

\* the store of a new database
EmptyStore ==
  [uidvalidity |-> [f \in Folders |-> None], downloaded |-> EmptyBag,
   email |-> {}, address |-> {}, participant |-> EmptyBag]

\* no call yet
NoCheck ==
  [folder |-> "", before |-> EmptyStore, after |-> EmptyStore,
   current |-> None, result |-> "none"]

(***************************************************************************)
(* Initial state: an empty store, before the first run                     *)
(***************************************************************************)
Prefix(n) == 1..n

\* no recipient value is being normalised
NoLinks == [form |-> "none", address |-> {}, participant |-> EmptyBag]

\* the store of a new database and the program before its first run
InitStore ==
  /\ folder_uidvalidity = [f \in Folders |-> None]
  /\ downloaded_emails = EmptyBag
  /\ email = {}
  /\ email_address = {}
  /\ email_participant = EmptyBag

\* main before its first run
InitMain ==
  /\ failed_emails = <<>>
  /\ failed_folders = <<>>
  /\ pc = "idle"
  /\ fidx = 1
  /\ attempt = 0
  /\ max_uid = None
  /\ all_uids = <<>>
  /\ existing_uids = {}
  /\ uid_batches = <<>>
  /\ bidx = 1
  /\ messages = <<>>
  /\ midx = 1
  /\ email_pk = 0
  /\ ridx = 1
  /\ runNo = 0
  /\ clean = FALSE
  /\ prevClean = FALSE
  /\ prevKilled = FALSE
  /\ mailboxChanged = FALSE
  /\ sameMailbox = FALSE
  /\ snapshot = Store
  /\ skewed = FALSE
  /\ retried = EmptyBag
  /\ msgFailed = {}
  /\ everFailed = {}
  /\ lastCheck = NoCheck
  /\ validated = {}
  /\ attempted = {}
  /\ failedAttempts = [f \in Folders |-> 0]
  /\ faults = 0
  /\ toolsRun = <<>>
  /\ mailbox = 0
  /\ last_fetch = NoFetch
  /\ halted = {}

\* the recovery is not run
NoRecovery ==
  [pc |-> "off", all_missing_uids |-> <<>>, already_downloaded |-> {},
   to_fetch |-> <<>>, batches |-> <<>>, batch |-> 1, retry_count |-> 0,
   mailbox |-> 0, recovered |-> <<>>, attempts |-> <<>>]

InitProgram ==
  /\ InitStore
  /\ InitMain
  /\ recover = NoRecovery

\* no list is being partitioned
NoSplit == [uids |-> <<>>, batch_size |-> 1]

\* a mailbox, a new database and the program before its first run
InitSync ==
  /\ \E n \in [Folders -> 0..MaxUid] :
       /\ \A f \in Folders : n[f] <= Capacity(f)
       /\ \A f \in Folders : Excluded(f) => n[f] = 1
       /\ server = [f \in Folders |-> Prefix(n[f])]
  /\ serverUv = [f \in Folders |-> 100]
  /\ to_type \in SeqTypes
  /\ InitProgram
  /\ horizon = [runs |-> MaxRuns, faults |-> MaxFaults]
  /\ rcpt_in = <<>>
  /\ rcpt_out = NoLinks
  /\ split_in = NoSplit
  /\ split_out = None

Init ==
  /\ InitSync
  /\ uid_star = "greater"

\* the run is over: main returned (done: line 682, aborted: line 650) or the
\* process was terminated from outside (killed)
Ended == pc \in {"done", "aborted", "killed"}

folder == folders_to_process[fidx]

\* the locals of main as they are when a process starts
ResetLocals ==
  /\ fidx' = 1
  /\ attempt' = 0
  /\ max_uid' = None
  /\ all_uids' = <<>>
  /\ existing_uids' = {}
  /\ uid_batches' = <<>>
  /\ bidx' = 1
  /\ messages' = <<>>
  /\ midx' = 1
  /\ email_pk' = 0
  /\ ridx' = 1
  /\ mailbox' = 0

\* a failure that the code does not decide (network, server, disk, a
\* malformed message); the runs meet at most horizon.faults of them
Fault ==
  /\ faults < horizon.faults
  /\ faults' = faults + 1
  /\ clean' = FALSE

(***************************************************************************)
(* The server between two runs                                             *)
(***************************************************************************)
\* a new message arrives in folder f
ServerAddMessage(f) ==
  /\ pc = "idle"
  /\ runNo < horizon.runs
  /\ ~Excluded(f)
  /\ Cardinality(server[f]) < Capacity(f)
  /\ server' = [server EXCEPT ![f] = @ \cup {Cardinality(@) + 1}]
  /\ mailboxChanged' = TRUE
  /\ UNCHANGED <<serverUv, to_type, uid_star, folder_uidvalidity,
                 downloaded_emails, email, email_address, email_participant,
                 failed_emails, failed_folders, pc, mailbox, fidx, attempt,
                 max_uid, all_uids, existing_uids, uid_batches, bidx, messages,
                 midx, email_pk, ridx, runNo, clean, prevClean, prevKilled,
                 sameMailbox, snapshot, skewed, retried, msgFailed, everFailed,
                 lastCheck, validated, attempted, failedAttempts, faults,
                 toolsRun, last_fetch, halted, horizon, recover, rcpt_in,
                 rcpt_out, split_in, split_out>>

\* the server renumbers the UIDs of folder f
ServerChangeUidValidity(f) ==
  /\ pc = "idle"
  /\ runNo < horizon.runs
  /\ ~Excluded(f)
  /\ folder_uidvalidity[f] # None
  /\ serverUv[f] = 100
  /\ serverUv' = [serverUv EXCEPT ![f] = 200]
  /\ mailboxChanged' = TRUE
  /\ UNCHANGED <<server, to_type, uid_star, folder_uidvalidity,
                 downloaded_emails, email, email_address, email_participant,
                 failed_emails, failed_folders, pc, mailbox, fidx, attempt,
                 max_uid, all_uids, existing_uids, uid_batches, bidx, messages,
                 midx, email_pk, ridx, runNo, clean, prevClean, prevKilled,
                 sameMailbox, snapshot, skewed, retried, msgFailed, everFailed,
                 lastCheck, validated, attempted, failedAttempts, faults,
                 toolsRun, last_fetch, halted, horizon, recover, rcpt_in,
                 rcpt_out, split_in, split_out>>

(***************************************************************************)
(* main                                                                    *)
(***************************************************************************)
\* a process starts main: lines 550-560
StartRun ==
  /\ pc = "idle"
  /\ runNo < horizon.runs
  /\ runNo' = runNo + 1
  /\ sameMailbox' = (runNo >= 1 /\ ~mailboxChanged)
  /\ mailboxChanged' = FALSE
  /\ snapshot' = Store
  /\ clean' = TRUE
  /\ pc' = "login"
  /\ UNCHANGED <<server, serverUv, to_type, uid_star, folder_uidvalidity,
                 downloaded_emails, email, email_address, email_participant,
                 failed_emails, failed_folders, mailbox, fidx, attempt,
                 max_uid, all_uids, existing_uids, uid_batches, bidx, messages,
                 midx, email_pk, ridx, prevClean, prevKilled, skewed, retried,
                 msgFailed, everFailed, lastCheck, validated, attempted,
                 failedAttempts, faults, toolsRun, last_fetch, halted, horizon,
                 recover, rcpt_in, rcpt_out, split_in, split_out>>

\* the process of the run is gone; nothing but the store is left of it
Exit ==
  /\ Ended
  /\ pc' = "idle"
  /\ prevClean' = (pc = "done" /\ clean)
  /\ prevKilled' = (pc = "killed" /\ clean)
  /\ clean' = FALSE
  /\ halted' = IF skewed THEN halted \cup {lastCheck.folder} ELSE halted
  /\ skewed' = FALSE
  /\ retried' = EmptyBag
  /\ msgFailed' = {}
  /\ everFailed' = {}
  /\ lastCheck' = NoCheck
  /\ validated' = {}
  /\ attempted' = {}
  /\ failedAttempts' = [f \in Folders |-> 0]
  /\ last_fetch' = NoFetch
  /\ failed_emails' = <<>>
  /\ failed_folders' = <<>>
  /\ ResetLocals
  /\ UNCHANGED <<server, serverUv, to_type, uid_star, folder_uidvalidity,
                 downloaded_emails, email, email_address, email_participant,
                 runNo, mailboxChanged, sameMailbox, snapshot, faults,
                 toolsRun, horizon, recover, rcpt_in, rcpt_out, split_in,
                 split_out>>

\* lines 562-563: the login and the folder listing succeed
Login ==
  /\ pc = "login"
  /\ pc' = "folder_head"
  /\ mailbox' = mailbox + 1
  /\ fidx' = 1
  /\ UNCHANGED <<server, serverUv, to_type, uid_star, folder_uidvalidity,
                 downloaded_emails, email, email_address, email_participant,
                 failed_emails, failed_folders, attempt, max_uid, all_uids,
                 existing_uids, uid_batches, bidx, messages, midx, email_pk,
                 ridx, runNo, clean, prevClean, prevKilled, mailboxChanged,
                 sameMailbox, snapshot, skewed, retried, msgFailed, everFailed,
                 lastCheck, validated, attempted, failedAttempts, faults,
                 toolsRun, last_fetch, halted, horizon, recover, rcpt_in,
                 rcpt_out, split_in, split_out>>

\* variant of LoginFails: the failure is logged and main goes on
LoginFails_Continues ==
  /\ pc = "login"
  /\ pc' = "folder_head"
  /\ Fault
  /\ UNCHANGED <<server, serverUv, to_type, uid_star, folder_uidvalidity,
                 downloaded_emails, email, email_address, email_participant,
                 failed_emails, failed_folders, mailbox, fidx, attempt,
                 max_uid, all_uids, existing_uids, uid_batches, bidx, messages,
                 midx, email_pk, ridx, runNo, prevClean, prevKilled,
                 mailboxChanged, sameMailbox, snapshot, skewed, retried,
                 msgFailed, everFailed, lastCheck, validated, attempted,
                 failedAttempts, toolsRun, last_fetch, halted, horizon,
                 recover, rcpt_in, rcpt_out, split_in, split_out>>

\* lines 562-563, 648-650: the login or the listing raises; main returns
LoginFails ==
  /\ pc = "login"
  /\ pc' = "aborted"
  /\ Fault
  /\ UNCHANGED <<server, serverUv, to_type, uid_star, folder_uidvalidity,
                 downloaded_emails, email, email_address, email_participant,
                 failed_emails, failed_folders, mailbox, fidx, attempt,
                 max_uid, all_uids, existing_uids, uid_batches, bidx, messages,
                 midx, email_pk, ridx, runNo, prevClean, prevKilled,
                 mailboxChanged, sameMailbox, snapshot, skewed, retried,
                 msgFailed, everFailed, lastCheck, validated, attempted,
                 failedAttempts, toolsRun, last_fetch, halted, horizon,
                 recover, rcpt_in, rcpt_out, split_in, split_out>>

\* lines 566-573: the head of the folder loop
FolderHead ==
  /\ pc = "folder_head"
  /\ IF fidx > Len(folders_to_process)
     THEN /\ pc' = "retry_head"
          /\ ridx' = 1
          /\ UNCHANGED <<fidx, attempt>>
     ELSE IF Excluded(folder)
          THEN /\ fidx' = fidx + 1
               /\ UNCHANGED <<pc, ridx, attempt>>
          ELSE /\ attempt' = 0
               /\ pc' = "ensure"
               /\ UNCHANGED <<fidx, ridx>>
  /\ UNCHANGED <<server, serverUv, to_type, uid_star, folder_uidvalidity,
                 downloaded_emails, email, email_address, email_participant,
                 failed_emails, failed_folders, mailbox, max_uid, all_uids,
                 existing_uids, uid_batches, bidx, messages, midx, email_pk,
                 runNo, clean, prevClean, prevKilled, mailboxChanged,
                 sameMailbox, snapshot, skewed, retried, msgFailed, everFailed,
                 lastCheck, validated, attempted, failedAttempts, faults,
                 toolsRun, last_fetch, halted, horizon, recover, rcpt_in,
                 rcpt_out, split_in, split_out>>

\* variant of EnsureFolder: a mismatch is recorded and the folder is attempted
EnsureFolder_SkewIgnored ==
  /\ pc = "ensure"
  /\ LET r == ensure_folder_and_uidvalidity(folder_uidvalidity, folder,
                                           serverUv[folder])
     IN /\ folder_uidvalidity' = r.tbl
        /\ lastCheck' = [folder |-> folder, before |-> Store,
                         after |-> [Store EXCEPT !.uidvalidity = r.tbl],
                         current |-> Some(serverUv[folder]),
                         result |-> r.result]
        /\ pc' = "attempt_head"
        /\ IF r.result = "skew"
           THEN /\ skewed' = TRUE
                /\ clean' = FALSE
                /\ UNCHANGED validated
           ELSE /\ validated' = validated \cup {folder}
                /\ UNCHANGED <<skewed, clean>>
  /\ UNCHANGED <<server, serverUv, to_type, uid_star, downloaded_emails,
                 email, email_address, email_participant, failed_emails,
                 failed_folders, mailbox, fidx, attempt, max_uid, all_uids,
                 existing_uids, uid_batches, bidx, messages, midx, email_pk,
                 ridx, runNo, prevClean, prevKilled, mailboxChanged,
                 sameMailbox, snapshot, retried, msgFailed, everFailed,
                 attempted, failedAttempts, faults, toolsRun, last_fetch,
                 halted, horizon, recover, rcpt_in, rcpt_out, split_in,
                 split_out>>

\* lines 575-579 with 528-547: the status gives a UIDVALIDITY; on the
\* RuntimeError of a mismatch main leaves the folder loop (break)
EnsureFolder ==
  /\ pc = "ensure"
  /\ LET r == ensure_folder_and_uidvalidity(folder_uidvalidity, folder,
                                           serverUv[folder])
     IN /\ folder_uidvalidity' = r.tbl
        /\ lastCheck' = [folder |-> folder, before |-> Store,
                         after |-> [Store EXCEPT !.uidvalidity = r.tbl],
                         current |-> Some(serverUv[folder]),
                         result |-> r.result]
        /\ IF r.result = "skew"
           THEN /\ pc' = "retry_head"
                /\ ridx' = 1
                /\ skewed' = TRUE
                /\ clean' = FALSE
                /\ UNCHANGED validated
           ELSE /\ pc' = "attempt_head"
                /\ validated' = validated \cup {folder}
                /\ UNCHANGED <<ridx, skewed, clean>>
  /\ UNCHANGED <<server, serverUv, to_type, uid_star, downloaded_emails,
                 email, email_address, email_participant, failed_emails,
                 failed_folders, mailbox, fidx, attempt, max_uid, all_uids,
                 existing_uids, uid_batches, bidx, messages, midx, email_pk,
                 runNo, prevClean, prevKilled, mailboxChanged, sameMailbox,
                 snapshot, retried, msgFailed, everFailed, attempted,
                 failedAttempts, faults, toolsRun, last_fetch, halted, horizon,
                 recover, rcpt_in, rcpt_out, split_in, split_out>>

\* lines 539-540, 577-579: the status holds no UIDVALIDITY; the RuntimeError
\* makes main leave the folder loop
EnsureNoKey ==
  /\ pc = "ensure"
  /\ lastCheck' = [folder |-> folder, before |-> Store, after |-> Store,
                   current |-> None,
                   result |-> "nokey"]
  /\ pc' = "retry_head"
  /\ ridx' = 1
  /\ Fault
  /\ UNCHANGED <<server, serverUv, to_type, uid_star, folder_uidvalidity,
                 downloaded_emails, email, email_address, email_participant,
                 failed_emails, failed_folders, mailbox, fidx, attempt,
                 max_uid, all_uids, existing_uids, uid_batches, bidx, messages,
                 midx, email_pk, runNo, prevClean, prevKilled, mailboxChanged,
                 sameMailbox, snapshot, skewed, retried, msgFailed, everFailed,
                 validated, attempted, failedAttempts, toolsRun, last_fetch,
                 halted, horizon, recover, rcpt_in, rcpt_out, split_in,
                 split_out>>

\* lines 529-531, 648-650: folder.set or folder.status raises an error of the
\* mail client, which is no RuntimeError: the outer handler returns from main
EnsureStatusFails ==
  /\ pc = "ensure"
  /\ lastCheck' = [folder |-> folder, before |-> Store, after |-> Store,
                   current |-> None,
                   result |-> "error"]
  /\ pc' = "aborted"
  /\ Fault
  /\ UNCHANGED <<server, serverUv, to_type, uid_star, folder_uidvalidity,
                 downloaded_emails, email, email_address, email_participant,
                 failed_emails, failed_folders, mailbox, fidx, attempt,
                 max_uid, all_uids, existing_uids, uid_batches, bidx, messages,
                 midx, email_pk, ridx, runNo, prevClean, prevKilled,
                 mailboxChanged, sameMailbox, snapshot, skewed, retried,
                 msgFailed, everFailed, validated, attempted, failedAttempts,
                 toolsRun, last_fetch, halted, horizon, recover, rcpt_in,
                 rcpt_out, split_in, split_out>>

\* variant of FolderAttemptFailed: the last attempt is not recognised
FolderAttemptFailed_NeverRecorded ==
  /\ failed_folders' = failed_folders
  /\ failedAttempts' = [failedAttempts EXCEPT ![folder] = @ + 1]
  /\ pc' = IF attempt = retry_limit THEN "attempt_head" ELSE "backoff"
  /\ Fault

\* lines 641-647: the handler of a folder-level failure of the attempt: the
\* folder is recorded after the last attempt; before another attempt the
\* handler sleeps
FolderAttemptFailed ==
  /\ failed_folders' = IF attempt = retry_limit
                       THEN Append(failed_folders, folder)
                       ELSE failed_folders
  /\ failedAttempts' = [failedAttempts EXCEPT ![folder] = @ + 1]
  /\ pc' = IF attempt = retry_limit THEN "attempt_head" ELSE "backoff"
  /\ Fault

\* line 647: time.sleep(5) is over
Backoff ==
  /\ pc = "backoff"
  /\ pc' = "attempt_head"
  /\ UNCHANGED <<server, serverUv, to_type, uid_star, folder_uidvalidity,
                 downloaded_emails, email, email_address, email_participant,
                 failed_emails, failed_folders, mailbox, fidx, attempt,
                 max_uid, all_uids, existing_uids, uid_batches, bidx, messages,
                 midx, email_pk, ridx, runNo, clean, prevClean, prevKilled,
                 mailboxChanged, sameMailbox, snapshot, skewed, retried,
                 msgFailed, everFailed, lastCheck, validated, attempted,
                 failedAttempts, faults, toolsRun, last_fetch, halted, horizon,
                 recover, rcpt_in, rcpt_out, split_in, split_out>>

\* variant of AttemptHead: the loop is `while attempt <= retry_limit`
AttemptHead_OneMore ==
  /\ pc = "attempt_head"
  /\ IF attempt <= retry_limit
     THEN /\ attempt' = attempt + 1
          /\ pc' = "enumerate"
          /\ attempted' = attempted \cup {folder}
          /\ UNCHANGED fidx
     ELSE /\ fidx' = fidx + 1
          /\ pc' = "folder_head"
          /\ UNCHANGED <<attempt, attempted>>
  /\ UNCHANGED <<server, serverUv, to_type, uid_star, folder_uidvalidity,
                 downloaded_emails, email, email_address, email_participant,
                 failed_emails, failed_folders, mailbox, max_uid, all_uids,
                 existing_uids, uid_batches, bidx, messages, midx, email_pk,
                 ridx, runNo, clean, prevClean, prevKilled, mailboxChanged,
                 sameMailbox, snapshot, skewed, retried, msgFailed, everFailed,
                 lastCheck, validated, failedAttempts, faults, toolsRun,
                 last_fetch, halted, horizon, recover, rcpt_in, rcpt_out,
                 split_in, split_out>>

\* lines 581-582: the head of the retry loop of the folder; when the limit is
\* reached the folder loop goes on with the next folder
AttemptHead ==
  /\ pc = "attempt_head"
  /\ IF attempt < retry_limit
     THEN /\ attempt' = attempt + 1
          /\ pc' = "enumerate"
          /\ attempted' = attempted \cup {folder}
          /\ UNCHANGED fidx
     ELSE /\ fidx' = fidx + 1
          /\ pc' = "folder_head"
          /\ UNCHANGED <<attempt, attempted>>
  /\ UNCHANGED <<server, serverUv, to_type, uid_star, folder_uidvalidity,
                 downloaded_emails, email, email_address, email_participant,
                 failed_emails, failed_folders, mailbox, max_uid, all_uids,
                 existing_uids, uid_batches, bidx, messages, midx, email_pk,
                 ridx, runNo, clean, prevClean, prevKilled, mailboxChanged,
                 sameMailbox, snapshot, skewed, retried, msgFailed, everFailed,
                 lastCheck, validated, failedAttempts, faults, toolsRun,
                 last_fetch, halted, horizon, recover, rcpt_in, rcpt_out,
                 split_in, split_out>>

\* lines 587-593: the UIDs the attempt enumerates
EnumerateUids(srv, f, m) ==
  IF m # None THEN FetchRange(srv, f, ValueOf(m)) ELSE FetchAll(srv, f)

\* lines 588-592: the criteria of the enumerating fetch
EnumerateCriteria(m) ==
  IF m # None THEN RangeCriteria(ValueOf(m)) ELSE AllCriteria

\* lines 585-599: the folder is selected and its UIDs are enumerated
Enumerate ==
  /\ pc = "enumerate"
  /\ max_uid' = get_max_uid(downloaded_emails, folder)
  /\ all_uids' = EnumerateUids(server, folder, max_uid')
  /\ last_fetch' = EnumerateCriteria(max_uid')
  /\ existing_uids' = get_existing_uids(downloaded_emails, folder)
  /\ uid_batches' = split_into_batches(all_uids', BatchSize)
  /\ bidx' = 1
  /\ pc' = "batch_head"
  /\ UNCHANGED <<server, serverUv, to_type, uid_star, folder_uidvalidity,
                 downloaded_emails, email, email_address, email_participant,
                 failed_emails, failed_folders, mailbox, fidx, attempt,
                 messages, midx, email_pk, ridx, runNo, clean, prevClean,
                 prevKilled, mailboxChanged, sameMailbox, snapshot, skewed,
                 retried, msgFailed, everFailed, lastCheck, validated,
                 attempted, failedAttempts, faults, toolsRun, halted, horizon,
                 recover, rcpt_in, rcpt_out, split_in, split_out>>

\* lines 585-593, 641-647: folder.set or the enumerating fetch raises
EnumerateFails ==
  /\ pc = "enumerate"
  /\ \E issued \in BOOLEAN :
       last_fetch' =
         IF issued
         THEN EnumerateCriteria(get_max_uid(downloaded_emails, folder))
         ELSE last_fetch
  /\ FolderAttemptFailed
  /\ UNCHANGED <<server, serverUv, to_type, uid_star, folder_uidvalidity,
                 downloaded_emails, email, email_address, email_participant,
                 failed_emails, mailbox, fidx, attempt, max_uid, all_uids,
                 existing_uids, uid_batches, bidx, messages, midx, email_pk,
                 ridx, runNo, prevClean, prevKilled, mailboxChanged,
                 sameMailbox, snapshot, skewed, retried, msgFailed, everFailed,
                 lastCheck, validated, attempted, toolsRun, halted, horizon,
                 recover, rcpt_in, rcpt_out, split_in, split_out>>

batch == uid_batches[bidx]

\* variant of AllExisting: no batch counts as stored
AllExisting_NoSkip(b, existing) == FALSE

\* line 602
AllExisting(b, existing) == \A i \in 1..Len(b) : b[i] \in existing

\* lines 601-606, 640: the head of the batch loop; a batch of stored UIDs is
\* skipped, another one is fetched; after the last batch the attempt has
\* succeeded (break) and the folder loop goes on
BatchHead ==
  /\ pc = "batch_head"
  /\ IF bidx > Len(uid_batches)
     THEN /\ fidx' = fidx + 1
          /\ pc' = "folder_head"
          /\ UNCHANGED <<bidx, messages, midx, msgFailed, last_fetch>>
     ELSE IF AllExisting(batch, existing_uids)
          THEN /\ bidx' = bidx + 1
               /\ UNCHANGED <<fidx, pc, messages, midx, msgFailed,
                              last_fetch>>
          ELSE /\ messages' = FetchBatch(server, folder, batch)
               /\ last_fetch' = UidCriteria(batch)
               /\ midx' = 1
               /\ msgFailed' = {}
               /\ pc' = "msg_head"
               /\ UNCHANGED <<fidx, bidx>>
  /\ UNCHANGED <<server, serverUv, to_type, uid_star, folder_uidvalidity,
                 downloaded_emails, email, email_address, email_participant,
                 failed_emails, failed_folders, mailbox, attempt, max_uid,
                 all_uids, existing_uids, uid_batches, email_pk, ridx, runNo,
                 clean, prevClean, prevKilled, mailboxChanged, sameMailbox,
                 snapshot, skewed, retried, everFailed, lastCheck, validated,
                 attempted, failedAttempts, faults, toolsRun, halted, horizon,
                 recover, rcpt_in, rcpt_out, split_in, split_out>>

\* lines 606, 641-647: the fetch of the batch raises
BatchFetchFails ==
  /\ pc = "batch_head"
  /\ bidx <= Len(uid_batches)
  /\ ~AllExisting(batch, existing_uids)
  /\ last_fetch' = UidCriteria(batch)
  /\ FolderAttemptFailed
  /\ UNCHANGED <<server, serverUv, to_type, uid_star, folder_uidvalidity,
                 downloaded_emails, email, email_address, email_participant,
                 failed_emails, mailbox, fidx, attempt, max_uid, all_uids,
                 existing_uids, uid_batches, bidx, messages, midx, email_pk,
                 ridx, runNo, prevClean, prevKilled, mailboxChanged,
                 sameMailbox, snapshot, skewed, retried, msgFailed, everFailed,
                 lastCheck, validated, attempted, toolsRun, halted, horizon,
                 recover, rcpt_in, rcpt_out, split_in, split_out>>

uid == messages[midx]

\* lines 607-610: the head of the message loop
MsgHead ==
  /\ pc = "msg_head"
  /\ IF midx > Len(messages)
     THEN /\ bidx' = bidx + 1
          /\ pc' = "batch_head"
          /\ UNCHANGED midx
     ELSE IF uid \in existing_uids
          THEN /\ midx' = midx + 1
               /\ UNCHANGED <<pc, bidx>>
          ELSE /\ pc' = "msg_extract"
               /\ UNCHANGED <<midx, bidx>>
  /\ UNCHANGED <<server, serverUv, to_type, uid_star, folder_uidvalidity,
                 downloaded_emails, email, email_address, email_participant,
                 failed_emails, failed_folders, mailbox, fidx, attempt,
                 max_uid, all_uids, existing_uids, uid_batches, messages,
                 email_pk, ridx, runNo, clean, prevClean, prevKilled,
                 mailboxChanged, sameMailbox, snapshot, skewed, retried,
                 msgFailed, everFailed, lastCheck, validated, attempted,
                 failedAttempts, faults, toolsRun, last_fetch, halted, horizon,
                 recover, rcpt_in, rcpt_out, split_in, split_out>>

\* variant of MessageFailed: the handler is around the message loop, so
\* that the rest of the batch is left out
MessageFailed_SkipsBatch ==
  /\ failed_emails' = log_error(failed_emails, uid, folder)
  /\ msgFailed' = msgFailed \cup {uid}
  /\ everFailed' = everFailed \cup {<<uid, folder>>}
  /\ midx' = Len(messages) + 1
  /\ pc' = "msg_head"

\* lines 637-639: the handler of a failure of one message; the message loop
\* goes on with the next message
MessageFailed ==
  /\ failed_emails' = log_error(failed_emails, uid, folder)
  /\ msgFailed' = msgFailed \cup {uid}
  /\ everFailed' = everFailed \cup {<<uid, folder>>}
  /\ midx' = midx + 1
  /\ pc' = "msg_head"

\* lines 612-615: the message is parsed, its attachments are written
MsgExtract ==
  /\ pc = "msg_extract"
  /\ pc' = "msg_mark"
  /\ UNCHANGED <<server, serverUv, to_type, uid_star, folder_uidvalidity,
                 downloaded_emails, email, email_address, email_participant,
                 failed_emails, failed_folders, mailbox, fidx, attempt,
                 max_uid, all_uids, existing_uids, uid_batches, bidx, messages,
                 midx, email_pk, ridx, runNo, clean, prevClean, prevKilled,
                 mailboxChanged, sameMailbox, snapshot, skewed, retried,
                 msgFailed, everFailed, lastCheck, validated, attempted,
                 failedAttempts, faults, toolsRun, last_fetch, halted, horizon,
                 recover, rcpt_in, rcpt_out, split_in, split_out>>

\* lines 612-615, 637-639: parsing or writing the attachments raises
MsgExtractFails ==
  /\ pc = "msg_extract"
  /\ MessageFailed
  /\ Fault
  /\ UNCHANGED <<server, serverUv, to_type, uid_star, folder_uidvalidity,
                 downloaded_emails, email, email_address, email_participant,
                 failed_folders, mailbox, fidx, attempt, max_uid, all_uids,
                 existing_uids, uid_batches, bidx, messages, email_pk, ridx,
                 runNo, prevClean, prevKilled, mailboxChanged, sameMailbox,
                 snapshot, skewed, retried, lastCheck, validated, attempted,
                 failedAttempts, toolsRun, last_fetch, halted, horizon,
                 recover, rcpt_in, rcpt_out, split_in, split_out>>

\* variant of MsgMark: the row of downloaded_emails is left for later and
\* the normalisation goes on without it
MsgMark_Deferred ==
  /\ pc = "msg_mark"
  /\ pc' = "msg_email"
  /\ UNCHANGED <<server, serverUv, to_type, uid_star, folder_uidvalidity,
                 downloaded_emails, email, email_address, email_participant,
                 failed_emails, failed_folders, mailbox, fidx, attempt,
                 max_uid, all_uids, existing_uids, uid_batches, bidx, messages,
                 midx, email_pk, ridx, runNo, clean, prevClean, prevKilled,
                 mailboxChanged, sameMailbox, snapshot, skewed, retried,
                 msgFailed, everFailed, lastCheck, validated, attempted,
                 failedAttempts, faults, toolsRun, last_fetch, halted, horizon,
                 recover, rcpt_in, rcpt_out, split_in, split_out>>

\* lines 616-624: the raw row is inserted and committed (line 341)
MsgMark ==
  /\ pc = "msg_mark"
  /\ downloaded_emails' =
       mark_email_downloaded(downloaded_emails, DownloadedRow(uid, folder))
  /\ pc' = "msg_email"
  /\ UNCHANGED <<server, serverUv, to_type, uid_star, folder_uidvalidity,
                 email, email_address, email_participant, failed_emails,
                 failed_folders, mailbox, fidx, attempt, max_uid, all_uids,
                 existing_uids, uid_batches, bidx, messages, midx, email_pk,
                 ridx, runNo, clean, prevClean, prevKilled, mailboxChanged,
                 sameMailbox, snapshot, skewed, retried, msgFailed, everFailed,
                 lastCheck, validated, attempted, failedAttempts, faults,
                 toolsRun, last_fetch, halted, horizon, recover, rcpt_in,
                 rcpt_out, split_in, split_out>>

\* lines 616-624, 637-639: the insert raises (the store is not written)
MsgMarkFails ==
  /\ pc = "msg_mark"
  /\ MessageFailed
  /\ Fault
  /\ UNCHANGED <<server, serverUv, to_type, uid_star, folder_uidvalidity,
                 downloaded_emails, email, email_address, email_participant,
                 failed_folders, mailbox, fidx, attempt, max_uid, all_uids,
                 existing_uids, uid_batches, bidx, messages, email_pk, ridx,
                 runNo, prevClean, prevKilled, mailboxChanged, sameMailbox,
                 snapshot, skewed, retried, lastCheck, validated, attempted,
                 failedAttempts, toolsRun, last_fetch, halted, horizon,
                 recover, rcpt_in, rcpt_out, split_in, split_out>>

\* lines 625-629 with 58-81: get_or_create_email inserts the row and selects
\* its key; with no row selected (message_id None) fetchone()[0] raises a
\* TypeError, which the handler of lines 637-639 takes
MsgEmail ==
  /\ pc = "msg_email"
  /\ email' = InsertEmail(email, uid, folder, Msg(uid).message_id)
  /\ LET pks == SelectEmailPk(email', uid, folder, Msg(uid).message_id)
     IN IF pks = {}
        THEN /\ MessageFailed
             /\ UNCHANGED email_pk
        ELSE /\ \E k \in pks : email_pk' = k
             /\ pc' = "msg_parts"
             /\ UNCHANGED <<failed_emails, msgFailed, everFailed, midx>>
  /\ UNCHANGED <<server, serverUv, to_type, uid_star, folder_uidvalidity,
                 downloaded_emails, email_address, email_participant,
                 failed_folders, mailbox, fidx, attempt, max_uid, all_uids,
                 existing_uids, uid_batches, bidx, messages, ridx, runNo,
                 clean, prevClean, prevKilled, mailboxChanged, sameMailbox,
                 snapshot, skewed, retried, lastCheck, validated, attempted,
                 failedAttempts, faults, toolsRun, last_fetch, halted, horizon,
                 recover, rcpt_in, rcpt_out, split_in, split_out>>

\* lines 630-636
MsgParticipants ==
  /\ pc = "msg_parts"
  /\ LET st == AddParticipants([address |-> email_address,
                                participant |-> email_participant],
                               email_pk, uid, to_type)
     IN /\ email_address' = st.address
        /\ email_participant' = st.participant
  /\ midx' = midx + 1
  /\ pc' = "msg_head"
  /\ UNCHANGED <<server, serverUv, to_type, uid_star, folder_uidvalidity,
                 downloaded_emails, email, failed_emails, failed_folders,
                 mailbox, fidx, attempt, max_uid, all_uids, existing_uids,
                 uid_batches, bidx, messages, email_pk, ridx, runNo, clean,
                 prevClean, prevKilled, mailboxChanged, sameMailbox, snapshot,
                 skewed, retried, msgFailed, everFailed, lastCheck, validated,
                 attempted, failedAttempts, faults, toolsRun, last_fetch,
                 halted, horizon, recover, rcpt_in, rcpt_out, split_in,
                 split_out>>

\* lines 652-655, 675-682: the head of the end-of-run retry loop, which
\* iterates over failed_emails by index
RetryHead ==
  /\ pc = "retry_head"
  /\ ridx > Len(failed_emails)
  /\ pc' = "report"
  /\ UNCHANGED <<server, serverUv, to_type, uid_star, folder_uidvalidity,
                 downloaded_emails, email, email_address, email_participant,
                 failed_emails, failed_folders, mailbox, fidx, attempt,
                 max_uid, all_uids, existing_uids, uid_batches, bidx, messages,
                 midx, email_pk, ridx, runNo, clean, prevClean, prevKilled,
                 mailboxChanged, sameMailbox, snapshot, skewed, retried,
                 msgFailed, everFailed, lastCheck, validated, attempted,
                 failedAttempts, faults, toolsRun, last_fetch, halted, horizon,
                 recover, rcpt_in, rcpt_out, split_in, split_out>>

\* lines 656-670: the queued message is fetched on a new connection and
\* stored
RetryItem ==
  /\ pc = "retry_head"
  /\ ridx <= Len(failed_emails)
  /\ LET k == failed_emails[ridx]
     IN /\ downloaded_emails' =
             mark_email_downloaded(downloaded_emails,
                                   DownloadedRow(k[1], k[2]))
        /\ retried' = retried (+) SetToBag({k})
        /\ last_fetch' = UidCriteria(<<k[1]>>)
  /\ mailbox' = mailbox + 1
  /\ ridx' = ridx + 1
  /\ UNCHANGED <<server, serverUv, to_type, uid_star, folder_uidvalidity,
                 email, email_address, email_participant, failed_emails,
                 failed_folders, pc, fidx, attempt, max_uid, all_uids,
                 existing_uids, uid_batches, bidx, messages, midx, email_pk,
                 runNo, clean, prevClean, prevKilled, mailboxChanged,
                 sameMailbox, snapshot, skewed, msgFailed, everFailed,
                 lastCheck, validated, attempted, failedAttempts, faults,
                 toolsRun, halted, horizon, recover, rcpt_in, rcpt_out,
                 split_in, split_out>>

\* lines 656-673: the retry raises; log_error appends the message to
\* failed_emails, the list the loop iterates over
RetryItemFails ==
  /\ pc = "retry_head"
  /\ ridx <= Len(failed_emails)
  /\ LET k == failed_emails[ridx]
     IN /\ failed_emails' = log_error(failed_emails, k[1], k[2])
        /\ retried' = retried (+) SetToBag({k})
        /\ \E issued \in BOOLEAN :
             last_fetch' = IF issued THEN UidCriteria(<<k[1]>>)
                           ELSE last_fetch
  /\ mailbox' = mailbox + 1
  /\ ridx' = ridx + 1
  /\ Fault
  /\ UNCHANGED <<server, serverUv, to_type, uid_star, folder_uidvalidity,
                 downloaded_emails, email, email_address, email_participant,
                 failed_folders, pc, fidx, attempt, max_uid, all_uids,
                 existing_uids, uid_batches, bidx, messages, midx, email_pk,
                 runNo, prevClean, prevKilled, mailboxChanged, sameMailbox,
                 snapshot, skewed, msgFailed, everFailed, lastCheck, validated,
                 attempted, failedAttempts, toolsRun, halted, horizon, recover,
                 rcpt_in, rcpt_out, split_in, split_out>>

\* lines 675-682: the failed folders are written to failed_folders.log
Report ==
  /\ pc = "report"
  /\ pc' = "done"
  /\ UNCHANGED <<server, serverUv, to_type, uid_star, folder_uidvalidity,
                 downloaded_emails, email, email_address, email_participant,
                 failed_emails, failed_folders, mailbox, fidx, attempt,
                 max_uid, all_uids, existing_uids, uid_batches, bidx, messages,
                 midx, email_pk, ridx, runNo, clean, prevClean, prevKilled,
                 mailboxChanged, sameMailbox, snapshot, skewed, retried,
                 msgFailed, everFailed, lastCheck, validated, attempted,
                 failedAttempts, faults, toolsRun, last_fetch, halted, horizon,
                 recover, rcpt_in, rcpt_out, split_in, split_out>>

\* the process is terminated from outside, at any point of main
Terminate ==
  /\ pc # "idle"
  /\ ~Ended
  /\ pc' = "killed"
  /\ failed_emails' = <<>>
  /\ failed_folders' = <<>>
  /\ last_fetch' = NoFetch
  /\ ResetLocals
  /\ UNCHANGED <<server, serverUv, to_type, uid_star, folder_uidvalidity,
                 downloaded_emails, email, email_address, email_participant,
                 runNo, clean, prevClean, prevKilled, mailboxChanged,
                 sameMailbox, snapshot, skewed, retried, msgFailed, everFailed,
                 lastCheck, validated, attempted, failedAttempts, faults,
                 toolsRun, halted, horizon, recover, rcpt_in, rcpt_out,
                 split_in, split_out>>

(***************************************************************************)
(* The maintenance scripts, which work on the store of the sync            *)
(***************************************************************************)
\* a script runs when no process of the sync runs, on the store of a sync
ToolCanRun ==
  /\ pc = "idle"
  /\ runNo >= 1
  /\ Len(toolsRun) < MaxToolRuns

\* backfill_message_id.py:19: message_id IS NULL OR message_id = ''
MissingMessageId(r) == r.message_id = None \/ r.message_id = Some(<<>>)

\* backfill_message_id.py:33-41: the Message-ID header of the message as
\* text, the empty text when the message has none
HeaderOrEmpty(u) ==
  IF Msg(u).message_id = None THEN Some(<<>>) ELSE Msg(u).message_id

\* backfill_message_id.py:25-54 for the row or Message r: the message is
\* fetched (a message the folder does not hold raises, and the row is left)
\* and its message_id is set
UpdatedMessageId(r, missing, srv) ==
  IF <<r.uid, r.folder>> \in missing /\ r.uid \in srv[r.folder]
  THEN [r EXCEPT !.message_id = HeaderOrEmpty(r.uid)]
  ELSE r

\* update_message_ids (backfill_message_id.py) on the store st: the rows of
\* downloaded_emails without a message_id are selected, and for each of them
\* the message_id of its row and of its Message rows is updated
update_message_ids(st, srv) ==
  LET missing == {<<r.uid, r.folder>> :
                    r \in {x \in BagToSet(st.downloaded) : MissingMessageId(x)}}
  IN [st EXCEPT
        !.downloaded =
           SetToBag({UpdatedMessageId(r, missing, srv) :
                       r \in BagToSet(st.downloaded)}),
        !.email = {UpdatedMessageId(r, missing, srv) : r \in st.email}]

\* a run of backfill_message_id.py
UpdateMessageIds ==
  /\ ToolCanRun
  /\ LET st == update_message_ids(Store, server)
     IN /\ downloaded_emails' = st.downloaded
        /\ email' = st.email
  /\ toolsRun' = Append(toolsRun, "update_message_ids")
  /\ UNCHANGED <<server, serverUv, to_type, uid_star, folder_uidvalidity,
                 email_address, email_participant, failed_emails,
                 failed_folders, pc, mailbox, fidx, attempt, max_uid, all_uids,
                 existing_uids, uid_batches, bidx, messages, midx, email_pk,
                 ridx, runNo, clean, prevClean, prevKilled, mailboxChanged,
                 sameMailbox, snapshot, skewed, retried, msgFailed, everFailed,
                 lastCheck, validated, attempted, failedAttempts, faults,
                 last_fetch, halted, horizon, recover, rcpt_in, rcpt_out,
                 split_in, split_out>>

\* migration_script.py:99-102: parse_recipients of a text
RECURSIVE LowerAll(_)
LowerAll(l) ==
  IF l = <<>> THEN <<>> ELSE <<Lower(Head(l))>> \o LowerAll(Tail(l))

migration_parse_recipients(s) ==
  IF s = <<>> THEN <<>> ELSE LowerAll(StripNonEmpty(Split(s)))

\* migration_script.py:87-96: get_or_create_email inserts a row (the table
\* has no key but email_pk) and selects the email_pk of the first row of the
\* (uid, folder)
migration_get_or_create_email(tbl, row) ==
  LET t == InsertEmail(tbl, row.uid, row.folder, None)
  IN [tbl |-> t,
      email_pk |-> CHOOSE k \in {r.email_pk : r \in
                          {x \in t : x.uid = row.uid /\ x.folder = row.folder}} :
                     \A r \in t : (r.uid = row.uid /\ r.folder = row.folder)
                                    => k <= r.email_pk]

\* SELECT * FROM downloaded_emails: the rows in the order of their insertion
\* by a failure-free sync (folder by folder, ascending UID)
RECURSIVE RowsInOrder(_, _)
RowsInOrder(tbl, fs) ==
  IF fs = <<>> THEN <<>>
  ELSE LET us == SortedSeq(get_existing_uids(tbl, Head(fs)))
       IN [i \in 1..Len(us) |->
             CHOOSE r \in RowsOf(tbl, Head(fs)) : r.uid = us[i]]
          \o RowsInOrder(tbl, Tail(fs))

\* migration_script.py:180-212: the body of the loop for one row
MigrateRow(st, row) ==
  LET got == migration_get_or_create_email(st.email, row)
      pk == got.email_pk
      s0 == [address |-> st.address, participant |-> st.participant]
      s1 == add_participant(s0, pk, row.sender, "from")
      s2 == AddAll(s1, pk, migration_parse_recipients(row.recipients), "to")
      s3 == AddAll(s2, pk, migration_parse_recipients(row.cc), "cc")
      s4 == AddAll(s3, pk, migration_parse_recipients(row.bcc), "bcc")
  IN [st EXCEPT !.email = got.tbl, !.address = s4.address,
                !.participant = s4.participant]

RECURSIVE MigrateRows(_, _)
MigrateRows(st, rows) ==
  IF rows = <<>> THEN st
  ELSE MigrateRows(MigrateRow(st, Head(rows)), Tail(rows))

\* main of migration_script.py on the store st
migration_main(st) ==
  MigrateRows(st, RowsInOrder(st.downloaded, folders_to_process))

\* a run of migration_script.py
MigrationMain ==
  /\ ToolCanRun
  /\ LET st == migration_main(Store)
     IN /\ email' = st.email
        /\ email_address' = st.address
        /\ email_participant' = st.participant
  /\ toolsRun' = Append(toolsRun, "migration_script")
  /\ UNCHANGED <<server, serverUv, to_type, uid_star, folder_uidvalidity,
                 downloaded_emails, failed_emails, failed_folders, pc, mailbox,
                 fidx, attempt, max_uid, all_uids, existing_uids, uid_batches,
                 bidx, messages, midx, email_pk, ridx, runNo, clean, prevClean,
                 prevKilled, mailboxChanged, sameMailbox, snapshot, skewed,
                 retried, msgFailed, everFailed, lastCheck, validated,
                 attempted, failedAttempts, faults, last_fetch, halted,
                 horizon, recover, rcpt_in, rcpt_out, split_in, split_out>>

Next ==
  \/ \E f \in Folders : ServerAddMessage(f)
  \/ \E f \in Folders : ServerChangeUidValidity(f)
  \/ StartRun
  \/ Exit
  \/ Login
  \/ LoginFails
  \/ FolderHead
  \/ EnsureFolder
  \/ EnsureNoKey
  \/ EnsureStatusFails
  \/ AttemptHead
  \/ Enumerate
  \/ EnumerateFails
  \/ Backoff
  \/ BatchHead
  \/ BatchFetchFails
  \/ MsgHead
  \/ MsgExtract
  \/ MsgExtractFails
  \/ MsgMark
  \/ MsgMarkFails
  \/ MsgEmail
  \/ MsgParticipants
  \/ RetryHead
  \/ RetryItem
  \/ RetryItemFails
  \/ Report
  \/ Terminate

Spec == Init /\ [][Next]_vars

\* the sync with a server that answers UID ranges as RFC 3501 defines them
InitStar ==
  /\ InitSync
  /\ uid_star = "highest"

SpecStar == InitStar /\ [][Next]_vars

\* the sync followed for MaxSkewRuns runs, so that a run can follow a run that
\* halted on a UIDVALIDITY mismatch
InitSkew ==
  /\ \E n \in [Folders -> 0..MaxUid] :
       /\ \A f \in Folders : n[f] <= Capacity(f)
       /\ \A f \in Folders : Excluded(f) => n[f] = 1
       /\ server = [f \in Folders |-> Prefix(n[f])]
  /\ serverUv = [f \in Folders |-> 100]
  /\ to_type = "list"
  /\ uid_star = "greater"
  /\ InitProgram
  /\ horizon = [runs |-> MaxSkewRuns, faults |-> MaxSkewFaults]
  /\ rcpt_in = <<>>
  /\ rcpt_out = NoLinks
  /\ split_in = NoSplit
  /\ split_out = None

SpecSkew == InitSkew /\ [][Next]_vars

\* the maintenance scripts, and the sync in runs that meet no failure of
\* the network, the server or the store (a run can still be terminated)
NextTools ==
  \/ \E f \in Folders : ServerAddMessage(f)
  \/ \E f \in Folders : ServerChangeUidValidity(f)
  \/ StartRun
  \/ Exit
  \/ Login
  \/ FolderHead
  \/ EnsureFolder
  \/ AttemptHead
  \/ Enumerate
  \/ BatchHead
  \/ MsgHead
  \/ MsgExtract
  \/ MsgMark
  \/ MsgEmail
  \/ MsgParticipants
  \/ RetryHead
  \/ RetryItem
  \/ Report
  \/ Terminate
  \/ UpdateMessageIds
  \/ MigrationMain

SpecTools == Init /\ [][NextTools]_vars

(***************************************************************************)
(* Recipient normalisation as a function of its input                      *)
(***************************************************************************)
a_c_x == <<"a", "@", "x", ";", "c", "@", "x">>

\* the address strings of the recipient values
RawAddrs == {a_x, A_x, b_x, B_x, b_x_sp, c_x, a_c_x}

\* the recipient values: up to MaxRcpt address strings
RcptLists == UNION {[1..n -> RawAddrs] : n \in 0..MaxRcpt}

\* the forms in which a recipient value is given
RcptForms == {"str", "list", "tuple"}

\* the value l in the form given: one text with the addresses delimited, or
\* a sequence of the address strings
InForm(form, l) == IF form = "str" THEN PyStr(Join(l)) ELSE PySeq(form, l)

\* src/main.py:631-632 on a new pair of tables: the recipients are parsed
\* and each of them is linked to the message with role `to`
LinkRecipients(form, l) ==
  AddAll([address |-> {}, participant |-> EmptyBag], 1,
         parse_recipients(InForm(form, l)), "to")

InitNorm ==
  /\ server = [f \in Folders |-> {}]
  /\ serverUv = [f \in Folders |-> 100]
  /\ to_type = "list"
  /\ uid_star = "greater"
  /\ InitProgram
  /\ horizon = [runs |-> MaxRuns, faults |-> MaxFaults]
  /\ rcpt_in \in RcptLists
  /\ rcpt_out = NoLinks
  /\ split_in = NoSplit
  /\ split_out = None

\* the recipient value is normalised in one of its forms
NormalizeRecipients(form) ==
  /\ LET st == LinkRecipients(form, rcpt_in)
     IN rcpt_out' = [form |-> form, address |-> st.address,
                     participant |-> st.participant]
  /\ UNCHANGED <<server, serverUv, to_type, uid_star, folder_uidvalidity,
                 downloaded_emails, email, email_address, email_participant,
                 failed_emails, failed_folders, pc, mailbox, fidx, attempt,
                 max_uid, all_uids, existing_uids, uid_batches, bidx, messages,
                 midx, email_pk, ridx, runNo, clean, prevClean, prevKilled,
                 mailboxChanged, sameMailbox, snapshot, skewed, retried,
                 msgFailed, everFailed, lastCheck, validated, attempted,
                 failedAttempts, faults, toolsRun, last_fetch, halted, horizon,
                 recover, rcpt_in, split_in, split_out>>

NextNorm == \E form \in RcptForms : NormalizeRecipients(form)

SpecNorm == InitNorm /\ [][NextNorm]_vars

(***************************************************************************)
(* Batch partitioning as a function of its input                           *)
(***************************************************************************)
\* the UID lists: up to MaxSplitLen UIDs, in any order, repeated or not
UidLists == UNION {[1..n -> UIDs] : n \in 0..MaxSplitLen}

InitSplit ==
  /\ server = [f \in Folders |-> {}]
  /\ serverUv = [f \in Folders |-> 100]
  /\ to_type = "list"
  /\ uid_star = "greater"
  /\ InitProgram
  /\ horizon = [runs |-> MaxRuns, faults |-> MaxFaults]
  /\ rcpt_in = <<>>
  /\ rcpt_out = NoLinks
  /\ split_in \in [uids : UidLists, batch_size : 1..MaxBatchSize]
  /\ split_out = None

\* the list is partitioned
SplitIntoBatches ==
  /\ split_out' = Some(split_into_batches(split_in.uids, split_in.batch_size))
  /\ UNCHANGED <<server, serverUv, to_type, uid_star, folder_uidvalidity,
                 downloaded_emails, email, email_address, email_participant,
                 failed_emails, failed_folders, pc, mailbox, fidx, attempt,
                 max_uid, all_uids, existing_uids, uid_batches, bidx, messages,
                 midx, email_pk, ridx, runNo, clean, prevClean, prevKilled,
                 mailboxChanged, sameMailbox, snapshot, skewed, retried,
                 msgFailed, everFailed, lastCheck, validated, attempted,
                 failedAttempts, faults, toolsRun, last_fetch, halted, horizon,
                 recover, rcpt_in, rcpt_out, split_in>>

NextSplit == SplitIntoBatches

SpecSplit == InitSplit /\ [][NextSplit]_vars

(***************************************************************************)
(* The targeted recovery: recover_missing_inbox_mails.main                 *)
(***************************************************************************)
\* the lists of missing UIDs that load_missing_uids gives
MissingLists == UNION {[1..n -> UIDs] : n \in 0..MaxMissing}

\* the row the recovery passes to its mark_email_downloaded, whose INSERT
\* names no message_id column
RecoveredRow(u) == [DownloadedRow(u, "INBOX") EXCEPT !.message_id = None]

\* what becomes of a fetched message: it is stored, extract_email_data
\* raises, or mark_email_downloaded raises
MessageOutcomes == {"stored", "extract", "mark"}

\* lines 154-174: the loop over the fetched messages msgs, from the table
\* and the list recovered of st
RECURSIVE RecoverMessages(_, _, _)
RecoverMessages(st, msgs, outcome) ==
  IF msgs = <<>> THEN st
  ELSE LET u == Head(msgs)
       IN RecoverMessages(
            [downloaded |->
               IF outcome[u] = "stored"
               THEN mark_email_downloaded(st.downloaded, RecoveredRow(u))
               ELSE st.downloaded,
             recovered |->
               IF outcome[u] = "extract" THEN st.recovered
               ELSE Append(st.recovered, u)],
            Tail(msgs), outcome)

\* the messages an attempt gets to, of the messages msgs of its fetch, and
\* what becomes of each; every failure counts as a failure of the behaviour
RecoverWork(msgs, n) ==
  {w \in [done : {SubSeq(msgs, 1, k) : k \in 0..Len(msgs)},
          outcome : [SeqToSet(msgs) -> MessageOutcomes]] :
     /\ \A u \in SeqToSet(msgs) \ SeqToSet(w.done) : w.outcome[u] = "stored"
     /\ faults + n
          + Cardinality({u \in SeqToSet(w.done) : w.outcome[u] # "stored"})
          <= horizon.faults}

FailuresOf(w) ==
  Cardinality({u \in SeqToSet(w.done) : w.outcome[u] # "stored"})

\* a store that the sync left, with rows of INBOX, a list of missing UIDs
\* and the recovery before it runs
InitRecover ==
  /\ \E n \in 0..MaxUid : server = [f \in Folders |-> Prefix(n)]
  /\ serverUv = [f \in Folders |-> 100]
  /\ to_type = "list"
  /\ uid_star = "greater"
  /\ folder_uidvalidity = [f \in Folders |-> None]
  /\ \E S \in SUBSET UIDs :
       downloaded_emails = SetToBag({DownloadedRow(u, "INBOX") : u \in S})
  /\ email = {}
  /\ email_address = {}
  /\ email_participant = EmptyBag
  /\ InitMain
  /\ horizon = [runs |-> 0, faults |-> MaxRecoverFaults]
  /\ \E l \in MissingLists :
       recover = [NoRecovery EXCEPT !.pc = "start", !.all_missing_uids = l]
  /\ rcpt_in = <<>>
  /\ rcpt_out = NoLinks
  /\ split_in = NoSplit
  /\ split_out = None

\* lines 133-145: the UIDs of the list that have no row of INBOX are split
\* into batches; with none of them main returns
RecoverStart ==
  /\ recover.pc = "start"
  /\ LET already == {r.uid : r \in RowsOf(downloaded_emails, "INBOX")}
         Missing(u) == u \notin already
         tf == SelectSeq(recover.all_missing_uids, Missing)
     IN recover' =
          [recover EXCEPT
             !.already_downloaded = already,
             !.to_fetch = tf,
             !.batches = IF tf = <<>> THEN <<>>
                         ELSE split_into_batches(tf, RecoverBatchSize),
             !.batch = 1,
             !.pc = IF tf = <<>> THEN "done" ELSE "batch_head"]
  /\ snapshot' = Store
  /\ UNCHANGED <<server, serverUv, to_type, uid_star, folder_uidvalidity,
                 downloaded_emails, email, email_address, email_participant,
                 failed_emails, failed_folders, pc, mailbox, fidx, attempt,
                 max_uid, all_uids, existing_uids, uid_batches, bidx, messages,
                 midx, email_pk, ridx, runNo, clean, prevClean, prevKilled,
                 mailboxChanged, sameMailbox, skewed, retried, msgFailed,
                 everFailed, lastCheck, validated, attempted, failedAttempts,
                 faults, toolsRun, last_fetch, halted, horizon, rcpt_in,
                 rcpt_out, split_in, split_out>>

\* lines 147-148, 183: the head of the loop over the batches
RecoverBatchHead ==
  /\ recover.pc = "batch_head"
  /\ recover' =
       IF recover.batch > Len(recover.batches)
       THEN [recover EXCEPT !.pc = "finish"]
       ELSE [recover EXCEPT !.retry_count = 0, !.pc = "attempt"]
  /\ UNCHANGED <<server, serverUv, to_type, uid_star, folder_uidvalidity,
                 downloaded_emails, email, email_address, email_participant,
                 failed_emails, failed_folders, pc, mailbox, fidx, attempt,
                 max_uid, all_uids, existing_uids, uid_batches, bidx, messages,
                 midx, email_pk, ridx, runNo, clean, prevClean, prevKilled,
                 mailboxChanged, sameMailbox, snapshot, skewed, retried,
                 msgFailed, everFailed, lastCheck, validated, attempted,
                 failedAttempts, faults, toolsRun, last_fetch, halted, horizon,
                 rcpt_in, rcpt_out, split_in, split_out>>

\* lines 149-175: an attempt that gets to the end of its fetch, on a new
\* connection; a message that fails is logged and left; break
RecoverAttempt ==
  /\ recover.pc = "attempt"
  /\ recover.retry_count < recover_retry_limit
  /\ LET uids == recover.batches[recover.batch]
         msgs == FetchBatch(server, "INBOX", uids)
     IN \E w \in RecoverWork(msgs, 0) :
          /\ w.done = msgs
          /\ LET st == RecoverMessages(
                         [downloaded |-> downloaded_emails,
                          recovered |-> recover.recovered],
                         w.done, w.outcome)
             IN /\ downloaded_emails' = st.downloaded
                /\ recover' =
                     [recover EXCEPT
                        !.mailbox = @ + 1,
                        !.recovered = st.recovered,
                        !.attempts =
                           Append(@, [batch |-> recover.batch,
                                      mailbox |-> recover.mailbox + 1,
                                      uids |-> uids,
                                      result |-> "ok"]),
                        !.batch = @ + 1,
                        !.pc = "batch_head"]
          /\ faults' = faults + FailuresOf(w)
  /\ UNCHANGED <<server, serverUv, to_type, uid_star, folder_uidvalidity,
                 email, email_address, email_participant, failed_emails,
                 failed_folders, pc, mailbox, fidx, attempt, max_uid, all_uids,
                 existing_uids, uid_batches, bidx, messages, midx, email_pk,
                 ridx, runNo, clean, prevClean, prevKilled, mailboxChanged,
                 sameMailbox, snapshot, skewed, retried, msgFailed, everFailed,
                 lastCheck, validated, attempted, failedAttempts, toolsRun,
                 last_fetch, halted, horizon, rcpt_in, rcpt_out, split_in,
                 split_out>>

\* lines 149-154, 176-179: the login, folder.set or the fetch raises, the
\* fetch after any number of its messages; retry_count is counted up and
\* main sleeps 5 s
RecoverAttemptFails ==
  /\ recover.pc = "attempt"
  /\ recover.retry_count < recover_retry_limit
  /\ LET uids == recover.batches[recover.batch]
         msgs == FetchBatch(server, "INBOX", uids)
     IN \E issued \in BOOLEAN :
        \E w \in RecoverWork(IF issued THEN msgs ELSE <<>>, 1) :
          /\ LET st == RecoverMessages(
                         [downloaded |-> downloaded_emails,
                          recovered |-> recover.recovered],
                         w.done, w.outcome)
             IN /\ downloaded_emails' = st.downloaded
                /\ recover' =
                     [recover EXCEPT
                        !.mailbox = @ + 1,
                        !.recovered = st.recovered,
                        !.attempts =
                           Append(@, [batch |-> recover.batch,
                                      mailbox |-> recover.mailbox + 1,
                                      uids |-> IF issued THEN uids
                                               ELSE <<>>,
                                      result |-> "failed"]),
                        !.retry_count = @ + 1]
          /\ faults' = faults + 1 + FailuresOf(w)
  /\ UNCHANGED <<server, serverUv, to_type, uid_star, folder_uidvalidity,
                 email, email_address, email_participant, failed_emails,
                 failed_folders, pc, mailbox, fidx, attempt, max_uid, all_uids,
                 existing_uids, uid_batches, bidx, messages, midx, email_pk,
                 ridx, runNo, clean, prevClean, prevKilled, mailboxChanged,
                 sameMailbox, snapshot, skewed, retried, msgFailed, everFailed,
                 lastCheck, validated, attempted, failedAttempts, toolsRun,
                 last_fetch, halted, horizon, rcpt_in, rcpt_out, split_in,
                 split_out>>

\* variant of RecoverGiveUp: the batches after the one given up are left
RecoverGiveUp_Stops ==
  /\ recover.pc = "attempt"
  /\ ~(recover.retry_count < recover_retry_limit)
  /\ recover' = [recover EXCEPT !.batch = @ + 1, !.pc = "finish"]
  /\ UNCHANGED <<server, serverUv, to_type, uid_star, folder_uidvalidity,
                 downloaded_emails, email, email_address, email_participant,
                 failed_emails, failed_folders, pc, mailbox, fidx, attempt,
                 max_uid, all_uids, existing_uids, uid_batches, bidx, messages,
                 midx, email_pk, ridx, runNo, clean, prevClean, prevKilled,
                 mailboxChanged, sameMailbox, snapshot, skewed, retried,
                 msgFailed, everFailed, lastCheck, validated, attempted,
                 failedAttempts, faults, toolsRun, last_fetch, halted, horizon,
                 rcpt_in, rcpt_out, split_in, split_out>>

\* lines 149, 180-181: the else of the while loop; the loop over the batches
\* goes on
RecoverGiveUp ==
  /\ recover.pc = "attempt"
  /\ ~(recover.retry_count < recover_retry_limit)
  /\ recover' = [recover EXCEPT !.batch = @ + 1, !.pc = "batch_head"]
  /\ UNCHANGED <<server, serverUv, to_type, uid_star, folder_uidvalidity,
                 downloaded_emails, email, email_address, email_participant,
                 failed_emails, failed_folders, pc, mailbox, fidx, attempt,
                 max_uid, all_uids, existing_uids, uid_batches, bidx, messages,
                 midx, email_pk, ridx, runNo, clean, prevClean, prevKilled,
                 mailboxChanged, sameMailbox, snapshot, skewed, retried,
                 msgFailed, everFailed, lastCheck, validated, attempted,
                 failedAttempts, faults, toolsRun, last_fetch, halted, horizon,
                 rcpt_in, rcpt_out, split_in, split_out>>

\* lines 183-192: the recovered messages are added to email_backup.json
RecoverFinish ==
  /\ recover.pc = "finish"
  /\ recover' = [recover EXCEPT !.pc = "done"]
  /\ UNCHANGED <<server, serverUv, to_type, uid_star, folder_uidvalidity,
                 downloaded_emails, email, email_address, email_participant,
                 failed_emails, failed_folders, pc, mailbox, fidx, attempt,
                 max_uid, all_uids, existing_uids, uid_batches, bidx, messages,
                 midx, email_pk, ridx, runNo, clean, prevClean, prevKilled,
                 mailboxChanged, sameMailbox, snapshot, skewed, retried,
                 msgFailed, everFailed, lastCheck, validated, attempted,
                 failedAttempts, faults, toolsRun, last_fetch, halted, horizon,
                 rcpt_in, rcpt_out, split_in, split_out>>

NextRecover ==
  \/ RecoverStart
  \/ RecoverBatchHead
  \/ RecoverAttempt
  \/ RecoverAttemptFails
  \/ RecoverGiveUp
  \/ RecoverFinish

SpecRecover == InitRecover /\ [][NextRecover]_vars

(***************************************************************************)
(* Properties                                                              *)
(***************************************************************************)
Stored(u, f) == u \in get_existing_uids(downloaded_emails, f)

Queue == SeqToSet(failed_emails)

\* no table of the store st holds two rows with one key
NoDuplicateRows(st) ==
  /\ \A r \in BagToSet(st.downloaded) : CopiesIn(r, st.downloaded) = 1
  /\ \A r1, r2 \in BagToSet(st.downloaded) :
       (r1.uid = r2.uid /\ r1.folder = r2.folder) => r1 = r2
  /\ \A r1, r2 \in st.email :
       (r1.uid = r2.uid /\ r1.folder = r2.folder) => r1 = r2
  /\ \A t \in BagToSet(st.participant) : CopiesIn(t, st.participant) = 1

\* the current run is the second of two runs on one mailbox, the first of
\* which ended at line 682 without a failure
SecondRun == runNo >= 2 /\ pc # "idle" /\ prevClean /\ sameMailbox

\* C1: Idempotence.  When a run that met no failure is followed by a run on
\* the unchanged mailbox, the store is at every point of the second run what
\* it was when the first run ended, and it holds no two DownloadedMessage
\* rows with one (uid, folder), no two Message rows of one (uid, folder) and
\* no Participation triple twice.
C1_Idempotent == SecondRun => (Store = snapshot /\ NoDuplicateRows(Store))

\* the second run has ended, after it went through the folders, on a store
\* that holds messages and their participants
C1_Witness ==
  /\ SecondRun
  /\ pc = "done"
  /\ clean
  /\ attempted # {}
  /\ downloaded_emails # EmptyBag
  /\ email_participant # EmptyBag

\* C2: UIDVALIDITY invariant (as claimed).  Once a run has met a stored
\* UIDVALIDITY that differs from the reported one, the run validates and
\* processes no folder any more and no step of the run writes the store.
C2_NoWriteAfterSkew ==
  [][skewed =>
       /\ Store' = Store
       /\ pc' \in {"retry_head", "report", "done", "killed", "idle"}]_vars

\* C3: no message is silently skipped (as claimed).  When a run that met no
\* failure has ended, every message of every folder that is not excluded has
\* a DownloadedMessage row, whatever the runs before it did.
C3_NothingSkipped ==
  (pc = "done" /\ clean) =>
    \A f \in Folders : ~Excluded(f) => \A u \in server[f] : Stored(u, f)

AttemptPcs ==
  {"batch_head", "msg_head", "msg_extract", "msg_mark", "msg_email",
   "msg_parts"}

MsgPcs == {"msg_head", "msg_extract", "msg_mark", "msg_email", "msg_parts"}

C5_RetriedOnce ==
  /\ \A k \in BagToSet(retried) : CopiesIn(k, retried) <= 1
  /\ pc \in {"report", "done"} =>
       \A k \in everFailed : CopiesIn(k, retried) = 1

\* C6: Isolation.  When the message loop of a fetched batch has ended, every
\* message of the batch that was not stored before the attempt and whose
\* processing did not fail has a DownloadedMessage row.
C6_Isolation ==
  (/\ pc = "batch_head"
   /\ bidx > 1
   /\ bidx <= Len(uid_batches) + 1
   /\ messages = FetchBatch(server, folder, uid_batches[bidx - 1])) =>
    \A i \in 1..Len(messages) :
      (messages[i] \notin existing_uids /\ messages[i] \notin msgFailed)
        => Stored(messages[i], folder)

\* a batch has ended in which a message failed and a later message of the
\* batch was stored
C6_Witness ==
  /\ pc = "batch_head"
  /\ bidx > 1
  /\ \E i, j \in 1..Len(messages) :
       /\ i < j
       /\ messages[i] \in msgFailed
       /\ messages[j] \notin msgFailed
       /\ messages[j] \notin existing_uids
       /\ Stored(messages[j], folder)

\* C7: a per-message error never propagates.  The step in which the
\* processing of a message fails leaves the attempt counter, the folder and
\* the failed folders as they are, goes on with the message loop and puts
\* the (uid, folder) in failed_emails; and when the folder loop ends, every
\* (uid, folder) that failed in it is in failed_emails.
C7_NoPropagation ==
  [][/\ (pc \in MsgPcs /\ msgFailed' # msgFailed) =>
          /\ attempt' = attempt
          /\ fidx' = fidx
          /\ failed_folders' = failed_folders
          /\ pc' = "msg_head"
          /\ <<uid, folder>> \in SeqToSet(failed_emails')
     /\ (pc # "retry_head" /\ pc' = "retry_head") =>
          everFailed' \subseteq SeqToSet(failed_emails')]_vars

\* the folder loop has ended with a failed message in the queue, and no
\* folder failed
C7_Witness ==
  /\ pc = "retry_head"
  /\ ridx = 1
  /\ everFailed # {}
  /\ everFailed \subseteq Queue
  /\ failed_folders = <<>>
  /\ \A f \in Folders : failedAttempts[f] = 0

\* the folder loop ended at the end of the listing
LoopCompleted ==
  /\ pc \in {"retry_head", "report", "done"}
  /\ ~skewed
  /\ lastCheck.result # "nokey"

\* C8: Retry exhaustion.  A folder whose retry_limit attempts all failed is
\* in failed_folders, and it does not end the folder loop: when the loop has
\* ended at the end of the listing, every folder that is not excluded was
\* validated and attempted.
C8_Exhaustion ==
  /\ pc # "killed" =>
       \A f \in Folders :
         failedAttempts[f] = retry_limit => f \in SeqToSet(failed_folders)
  /\ LoopCompleted =>
       \A f \in Folders : ~Excluded(f) => (f \in validated /\ f \in attempted)

\* the run has ended after a folder failed retry_limit times and a folder
\* listed after it was validated and its messages stored
C8_Witness ==
  /\ pc = "done"
  /\ \E i, j \in 1..Len(folders_to_process) :
       /\ i < j
       /\ failedAttempts[folders_to_process[i]] = retry_limit
       /\ folders_to_process[i] \in SeqToSet(failed_folders)
       /\ folders_to_process[j] \in validated
       /\ folders_to_process[j] \in attempted
       /\ \E u \in UIDs : Stored(u, folders_to_process[j])
                          /\ \A r \in BagToSet(snapshot.downloaded) :
                               ~(r.uid = u /\ r.folder = folders_to_process[j])

\* C9: the stored UIDVALIDITY of a folder never changes once recorded.
C9_UidValidityStable ==
  [][\A f \in Folders :
       folder_uidvalidity[f] # None =>
         folder_uidvalidity'[f] = folder_uidvalidity[f]]_vars

\* the check has met a reported value that differs from the stored one, and
\* the stored one is still there
C9_Witness ==
  /\ lastCheck.result = "skew"
  /\ folder_uidvalidity[lastCheck.folder] = Some(100)
  /\ serverUv[lastCheck.folder] = 200

\* C10: checkValidity outcome.  For the last check of a folder of which the
\* status gave the value `current`: with no stored value the check succeeds
\* and leaves the store with `current` recorded for the folder and nothing
\* else changed; with the stored value equal to `current` it succeeds and
\* leaves the store unchanged; it fails with the skew error exactly when a
\* stored value exists and differs, and then the store is unchanged.
C10_CheckOutcome ==
  LET f == lastCheck.folder
      stored == lastCheck.before.uidvalidity[f]
  IN /\ lastCheck.result \in {"ok", "skew"} =>
          /\ stored = None =>
               /\ lastCheck.result = "ok"
               /\ lastCheck.after =
                    [lastCheck.before EXCEPT
                       !.uidvalidity[f] = lastCheck.current]
          /\ stored = lastCheck.current =>
               /\ lastCheck.result = "ok"
               /\ lastCheck.after = lastCheck.before
          /\ lastCheck.result = "skew" <=>
               (stored # None /\ stored # lastCheck.current)
          /\ lastCheck.result = "skew" => lastCheck.after = lastCheck.before
     /\ lastCheck.result \in {"nokey", "error"} =>
          lastCheck.after = lastCheck.before
     /\ lastCheck.result # "none" =>
          folder_uidvalidity = lastCheck.after.uidvalidity
     /\ ((lastCheck.result = "ok" /\ pc = "attempt_head" /\ attempt = 0)
          \/ (lastCheck.result = "skew" /\ pc = "retry_head" /\ ridx = 1))
          => Store = lastCheck.after

\* the check of a folder without a stored value has recorded the baseline
C10_Witness ==
  /\ lastCheck.result = "ok"
  /\ lastCheck.before.uidvalidity[lastCheck.folder] = None
  /\ folder_uidvalidity[lastCheck.folder] = lastCheck.current
  /\ pc = "attempt_head"

\* the run ended at line 650 because the login or the folder listing failed
LoginFailed == pc = "aborted" /\ lastCheck.result = "none"

\* C11: Failure containment (as claimed).  Unless the run met a UIDVALIDITY
\* mismatch or failed to connect, the folder loop does not end before the
\* end of the listing: a failure of the folder select, the status query, the
\* enumeration or a batch fetch leaves the driver in the folder loop.
C11_Containment ==
  (pc \in {"retry_head", "report", "done", "aborted"}
   /\ ~skewed /\ ~LoginFailed) => fidx > Len(folders_to_process)

\* C12: the initial connection failure is fatal for the run.  The step in
\* which the login fails ends the run without a store write, and a run that
\* ended so has validated and attempted no folder, retried no message and
\* left the store as it was when the run started.
C12_LoginFatal ==
  /\ [][(pc = "login" /\ faults' # faults) =>
          (pc' = "aborted" /\ Store' = Store)]_vars
  /\ [](LoginFailed =>
          /\ Store = snapshot
          /\ validated = {}
          /\ attempted = {}
          /\ retried = EmptyBag)

\* the login of a second run failed while the server holds a message that is
\* not stored
C12_Witness ==
  /\ LoginFailed
  /\ runNo = 2
  /\ downloaded_emails # EmptyBag
  /\ \E f \in Folders : ~Excluded(f) /\ \E u \in server[f] : ~Stored(u, f)

\* lines 607-639 for the messages `uids` of folder f, none of which fails
\* but by its content
RECURSIVE SyncMessages(_, _, _, _)
SyncMessages(st, f, uids, t) ==
  IF uids = <<>> THEN st
  ELSE LET u == Head(uids)
           e == InsertEmail(st.email, u, f, Msg(u).message_id)
           pks == SelectEmailPk(e, u, f, Msg(u).message_id)
           s0 == [address |-> st.address, participant |-> st.participant]
           p == IF pks = {} THEN s0
                ELSE AddParticipants(s0, CHOOSE k \in pks : TRUE, u, t)
       IN SyncMessages(
            [st EXCEPT
               !.downloaded = mark_email_downloaded(@, DownloadedRow(u, f)),
               !.email = e, !.address = p.address,
               !.participant = p.participant],
            f, Tail(uids), t)

\* lines 566-640 for the folders fs, from the store st
RECURSIVE SyncFolders(_, _, _, _, _)
SyncFolders(st, srv, uv, fs, t) ==
  IF fs = <<>> THEN st
  ELSE IF Excluded(Head(fs)) THEN SyncFolders(st, srv, uv, Tail(fs), t)
       ELSE SyncFolders(
              SyncMessages(
                [st EXCEPT !.uidvalidity =
                   ensure_folder_and_uidvalidity(@, Head(fs), uv[Head(fs)]).tbl],
                Head(fs), FetchAll(srv, Head(fs)), t),
              srv, uv, Tail(fs), t)

\* the store one uninterrupted run without a failure leaves, from a new
\* database
UninterruptedRun == SyncFolders(EmptyStore, server, serverUv,
                                folders_to_process, to_type)

\* the Message rows of the store st without their surrogate key
MessageRows(st) == {<<r.uid, r.folder, r.message_id>> : r \in st.email}

AddressRows(st) == {r.email : r \in st.address}

\* the Participation rows of the store st as (uid, folder, address, role)
ParticipationRows(st) ==
  {<<x[2].uid, x[2].folder, x[3].email, x[1][3]>> :
     x \in {y \in BagToSet(st.participant) \X st.email \X st.address :
              y[2].email_pk = y[1][1] /\ y[3].email_id = y[1][2]}}

\* the stores s1 and s2 hold the same DownloadedMessage, Message, Address
\* and Participation rows, whatever the surrogate keys are
SameRows(s1, s2) ==
  /\ s1.downloaded = s2.downloaded
  /\ MessageRows(s1) = MessageRows(s2)
  /\ Cardinality(s1.email) = Cardinality(s2.email)
  /\ AddressRows(s1) = AddressRows(s2)
  /\ ParticipationRows(s1) = ParticipationRows(s2)
  /\ BagCardinality(s1.participant) = BagCardinality(s2.participant)

\* what UninterruptedRun is: the store at the end of a first run that met no
\* failure and was not terminated
UninterruptedRunIsARun ==
  (runNo = 1 /\ pc = "done" /\ clean) => Store = UninterruptedRun

\* C13: Resumability (as claimed).  When a first run that met no failure was
\* terminated and a second run on the same mailbox has ended without a
\* failure, the store holds the rows that one uninterrupted run without a
\* failure leaves.
C13_Resumable ==
  (runNo = 2 /\ pc = "done" /\ clean /\ prevKilled /\ sameMailbox)
    => SameRows(Store, UninterruptedRun)

\* the `from` links of the Message row r
FromLinks(r) ==
  {t \in BagToSet(email_participant) : t[1] = r.email_pk /\ t[3] = "from"}

\* C14: one `from` participation per message (as claimed).  When a first
\* run has ended at line 682 without a failure of the network, the server
\* or the store, every Message row of a message with a sender
\* has exactly one Participation with role `from`.
C14_FromLink ==
  (runNo = 1 /\ pc = "done" /\ clean) =>
    \A r \in email :
      Msg(r.uid).from_ # <<>> =>
        /\ Cardinality(FromLinks(r)) = 1
        /\ \A t \in FromLinks(r) : CopiesIn(t, email_participant) = 1

\* C15: Participation uniqueness.  No (message, address, role) triple is
\* twice in email_participant, and the link of a triple that exists leaves
\* the table as it is.
C15_ParticipationUnique ==
  /\ \A t \in BagToSet(email_participant) :
       CopiesIn(t, email_participant) = 1
  /\ \A t \in BagToSet(email_participant) :
       InsertParticipant(email_participant, t) = email_participant

\* a message with two recipients that are one address was linked: its
\* second recipient met the triple of the first
C15_Witness ==
  /\ to_type = "list"
  /\ \E r \in email, a \in email_address :
       /\ Lower(Strip(Msg(r.uid).to[1])) = Lower(Strip(Msg(r.uid).to[2]))
       /\ a.email = Lower(Strip(Msg(r.uid).to[1]))
       /\ BagIn(<<r.email_pk, a.email_id, "to">>, email_participant)

\* str.strip().lower() of a raw address
Normalized(x) == Lower(Strip(x))

\* the pairs of raw address strings that have one normalized value
SameAddressPairs ==
  {p \in RawAddrs \X RawAddrs : Normalized(p[1]) = Normalized(p[2])}

\* C16: Address uniqueness.  In every state no two Address rows hold one
\* email or one email_id and every email is stored trimmed and lowercased;
\* on every store (every store is the store of a state between two runs)
\* two calls of get_or_create_email_address with raw strings of one
\* normalized value return one identity, the second call leaving the table
\* of the first; and no step removes or changes an Address row.
C16_AddressUnique ==
  /\ [](/\ \A r1, r2 \in email_address :
             (r1.email = r2.email \/ r1.email_id = r2.email_id) => r1 = r2
        /\ \A r \in email_address : r.email = Normalized(r.email)
        /\ pc = "idle" =>
             \A p \in SameAddressPairs :
               LET g1 == get_or_create_email_address(email_address, p[1])
                   g2 == get_or_create_email_address(g1.tbl, p[2])
               IN /\ g2.id = g1.id
                  /\ g2.tbl = g1.tbl
                  /\ \E r \in g1.tbl :
                       /\ r.email = Normalized(p[1])
                       /\ Some(r.email_id) = g1.id)
  /\ [][email_address \subseteq email_address']_vars

\* the recipients "B@x" and "b@x " of a message were resolved to the one
\* Address row of b@x
C16_Witness ==
  /\ to_type = "list"
  /\ \E r \in email, a \in email_address :
       /\ Msg(r.uid).to = <<B_x, b_x_sp>>
       /\ a.email = b_x
       /\ BagIn(<<r.email_pk, a.email_id, "to">>, email_participant)
       /\ BagCardinality(email_participant) = 2

\* C17: Recipient normalization (as claimed).  A recipient value given as a
\* sequence of address strings, or as one delimited text, gives the Address
\* rows and the links that the delimited text gives.
C17_SameLinks ==
  rcpt_out.form # "none" =>
    LET st == LinkRecipients("str", rcpt_in)
    IN /\ rcpt_out.address = st.address
       /\ rcpt_out.participant = st.participant

\* C18: DownloadedMessage rows are never updated (as claimed).  Every row of
\* downloaded_emails is in the table after every step of the sync and of
\* the maintenance scripts, with every field as it was.
C18_RowsNeverUpdated ==
  [][\A r \in BagToSet(downloaded_emails) :
       BagIn(r, downloaded_emails')]_vars

\* C19: re-downloading never duplicates.  In every state, whatever attempts
\* failed and whatever was retried, downloaded_emails holds one row per
\* (uid, folder), email holds at most one row per (uid, folder), and
\* email_participant holds no triple twice.
C19_NoDuplicates == NoDuplicateRows(Store)

\* a run has ended in which a message of a batch failed while another
\* message of the batch was stored, a later attempt of the folder failed,
\* the next attempt enumerated and stored the failed message, and the
\* end-of-run retry stored it once more
C19_Witness ==
  /\ pc = "done"
  /\ \E f \in Folders, u, v \in UIDs :
       /\ u # v
       /\ failedAttempts[f] >= 1
       /\ <<u, f>> \in everFailed
       /\ BagIn(<<u, f>>, retried)
       /\ Stored(u, f)
       /\ Stored(v, f)
       /\ ~(\E r \in BagToSet(snapshot.downloaded) : r.folder = f)
       /\ \E r \in email : r.uid = u /\ r.folder = f

\* a step of the normalization backfill
MigrationStep == toolsRun' = Append(toolsRun, "migration_script")

\* C20: the normalization backfill is idempotent (as claimed).  A run of
\* the backfill leaves one Message row per (uid, folder), and a run that
\* follows another run of the backfill leaves the rows of the store as they
\* were.
C20_BackfillIdempotent ==
  [][MigrationStep =>
       /\ \A r1, r2 \in email' :
            (r1.uid = r2.uid /\ r1.folder = r2.folder) => r1 = r2
       /\ "migration_script" \in SeqToSet(toolsRun) =>
            SameRows(Store', Store)]_vars

\* the (uid, folder) of the Message row a Participation row refers to
MessageOf(p) == {<<r.uid, r.folder>> : r \in {x \in email : x.email_pk = p[1]}}

\* C21: Raw insert precedes normalization.  In every state, also in the
\* states in which the run was terminated, every Message row is the row of
\* a (uid, folder) that has a DownloadedMessage row, and every Participation
\* row refers to a Message row of such a (uid, folder).
C21_RawFirst ==
  /\ \A r \in email : Stored(r.uid, r.folder)
  /\ \A p \in BagToSet(email_participant) :
       /\ MessageOf(p) # {}
       /\ \A k \in MessageOf(p) : Stored(k[1], k[2])

\* the run was terminated between the raw insert of a message and its
\* normalisation, after another message was normalised
C21_Witness ==
  /\ pc = "killed"
  /\ email_participant # EmptyBag
  /\ \E r \in BagToSet(downloaded_emails) :
       ~(\E e \in email : e.uid = r.uid /\ e.folder = r.folder)

\* the folders of the listing whose name, in lower case, is in the denylist
Denylisted == {f \in Folders : \E d \in skip_folders : LowerName(f) = d}

\* the positions of main between the UIDVALIDITY check of a folder and the
\* end of its attempts
FolderPcs == {"ensure", "attempt_head", "enumerate", "backoff"} \cup AttemptPcs

\* C22: Folder denylist.  A folder of the denylist (its name compared in
\* lower case) is never the folder main validates, enumerates or fetches,
\* is never queued for the end-of-run retry, and has no UIDVALIDITY entry,
\* no DownloadedMessage row and no Message row.  A folder is attempted only
\* after its UIDVALIDITY check has succeeded in the run, and a run whose
\* folder loop reached the end of the listing has validated and attempted
\* every folder that is not in the denylist.
C22_Denylist ==
  /\ \A f \in Denylisted :
       /\ f \notin validated /\ f \notin attempted
       /\ lastCheck.folder # f
       /\ pc \in FolderPcs => folder # f
       /\ \A k \in Queue : k[2] # f
       /\ folder_uidvalidity[f] = None
       /\ RowsOf(downloaded_emails, f) = {}
       /\ \A r \in email : r.folder # f
  /\ attempted \subseteq validated
  /\ pc \in (FolderPcs \ {"ensure"}) => folder \in validated
  /\ LoopCompleted =>
       \A f \in Folders \ Denylisted : f \in validated /\ f \in attempted

\* a run has ended that stored a message of the folder listed after Trash,
\* while Trash holds a message on the server
C22_Witness ==
  /\ pc = "done"
  /\ "Trash" \in Denylisted
  /\ "Trash" \notin skip_folders
  /\ server["Trash"] # {}
  /\ \A f \in Folders \ Denylisted : RowsOf(downloaded_emails, f) # {}

\* every UID of the batch at hand has a DownloadedMessage row of the folder
BatchStored == \A i \in 1..Len(batch) : Stored(batch[i], folder)

\* C23: Batch skip.  A step of main at the head of the batch loop, with a
\* batch at hand: when every UID of the batch is stored for the folder, the
\* step gives no fetch to the mail capability, opens no session, writes
\* nothing to the store and goes on with the next batch; when a UID of the
\* batch is not stored, the step gives the fetch of the batch to the mail
\* capability, and processes its messages unless the fetch fails.
C23_BatchSkip ==
  [][(pc = "batch_head" /\ bidx <= Len(uid_batches) /\ pc' # "killed") =>
       IF BatchStored
       THEN /\ last_fetch' = last_fetch
            /\ mailbox' = mailbox
            /\ messages' = messages
            /\ Store' = Store
            /\ pc' = "batch_head"
            /\ bidx' = bidx + 1
       ELSE /\ last_fetch' = UidCriteria(batch)
            /\ \/ /\ pc' = "msg_head"
                  /\ messages' = FetchBatch(server, folder, batch)
               \/ /\ pc' \in {"backoff", "attempt_head"}
                  /\ faults' = faults + 1]_vars

\* the only batch of an incremental enumeration was skipped: its UIDs are
\* stored and the last fetch given to the server is the enumerating one
C23_Witness ==
  /\ pc = "batch_head"
  /\ bidx = 2
  /\ Len(uid_batches) = 1
  /\ \A i \in 1..Len(uid_batches[1]) : Stored(uid_batches[1][i], folder)
  /\ last_fetch.criteria = "uid_range"
  /\ messages = <<>>

\* the concatenation of the sequences of l
RECURSIVE Concat(_)
Concat(l) == IF l = <<>> THEN <<>> ELSE Head(l) \o Concat(Tail(l))

\* C24: Batch partitioning preserves order.  For the UID list and the batch
\* size n >= 1 given to split_into_batches, the concatenation of the batches
\* is the list, no batch is empty, no batch has more than n elements, every
\* batch but the last has n elements, and the empty list gives no batch.
C24_Partition ==
  split_out # None =>
    LET b == ValueOf(split_out)
        n == split_in.batch_size
    IN /\ Concat(b) = split_in.uids
       /\ \A k \in 1..Len(b) : Len(b[k]) >= 1 /\ Len(b[k]) <= n
       /\ \A k \in 1..(Len(b) - 1) : Len(b[k]) = n
       /\ split_in.uids = <<>> => b = <<>>

\* a list was partitioned into more than one batch, the last of which is
\* shorter than the batch size
C24_Witness ==
  /\ split_out # None
  /\ Len(ValueOf(split_out)) >= 2
  /\ Len(ValueOf(split_out)[Len(ValueOf(split_out))]) < split_in.batch_size
  /\ split_in.batch_size >= 2

\* a step that starts an attempt on the folder
AttemptStarts == pc = "attempt_head" /\ pc' = "enumerate"

\* a step of the end-of-run retry of one queued message
RetryStep == pc = "retry_head" /\ ridx' = ridx + 1

\* the first attempts of the folders run on the session the run opened
FirstAttemptsShareSession ==
  [][(AttemptStarts /\ attempt' = 1) => (mailbox' = mailbox /\ mailbox = 1)]_vars

\* every end-of-run retry of a message runs on a new session
MessageRetryOnNewSession == [][RetryStep => mailbox' = mailbox + 1]_vars

\* C25: Session handling (as claimed).  The first attempts of all folders of
\* a run use the one session the run opened, and every retry attempt starts
\* on a new connection: each attempt on a folder after its first one, and
\* each end-of-run retry of a message.
C25_Sessions ==
  [][/\ (AttemptStarts /\ attempt' = 1) =>
          (mailbox' = mailbox /\ mailbox = 1)
     /\ (AttemptStarts /\ attempt' > 1) => mailbox' = mailbox + 1
     /\ RetryStep => mailbox' = mailbox + 1]_vars

\* the sequence l of UIDs is in ascending, or in descending, order
Ascending(l) == \A i, j \in 1..Len(l) : i < j => l[i] < l[j]

Descending(l) == \A i, j \in 1..Len(l) : i < j => l[i] > l[j]

\* the elements of m are elements of l, in the order they have in l
InOrderOf(m, l) ==
  \A i, j \in 1..Len(m) :
    i < j => \E a, b \in 1..Len(l) : a < b /\ l[a] = m[i] /\ l[b] = m[j]

\* the batches are the enumerated list cut into pieces, and the messages of
\* a fetched batch come in the order of the batch
ProcessedInListOrder ==
  pc \in AttemptPcs =>
    /\ Concat(uid_batches) = all_uids
    /\ pc \in MsgPcs => SeqToSet(messages) \subseteq SeqToSet(batch)
    /\ pc \in MsgPcs => InOrderOf(messages, batch)

\* the UIDs an incremental fetch enumerates are in ascending order
IncrementalAscending ==
  (pc \in AttemptPcs /\ max_uid # None) => Ascending(all_uids)

\* C26: Processing order within a folder (as claimed).  In an attempt the
\* batches and the messages are processed in the order of the enumerated
\* UID list; the list of a full-folder fetch is in descending order of UID
\* and the list of an incremental fetch in ascending order.
C26_Order ==
  /\ ProcessedInListOrder
  /\ IncrementalAscending
  /\ (pc \in AttemptPcs /\ max_uid = None) => Descending(all_uids)

\* the folders for which the store held a row when the run started
StoredBefore == {f \in Folders : RowsOf(snapshot.downloaded, f) # {}}

\* the highest UID the store held for folder f when the run started
MaxBefore(f) == SetMax({r.uid : r \in RowsOf(snapshot.downloaded, f)})

\* the messages of folder f on the server above that UID
NewOnServer(f) == {u \in server[f] : u > MaxBefore(f)}

\* C27: Post-state of a failure-free incremental sync.  When a run without
\* a failure has ended, then for every folder that had a stored max UID U
\* at the start of the run: the rows of the folder are the rows it had,
\* unchanged, and one row for each server message with uid > U, and nothing
\* else; and when there are such messages, the max-known UID of the folder
\* is the highest UID of the folder on the server.
C27_IncrementalPostState ==
  (pc = "done" /\ clean) =>
    \A f \in StoredBefore :
      /\ RowsOf(downloaded_emails, f) =
           RowsOf(snapshot.downloaded, f)
             \cup {DownloadedRow(u, f) : u \in NewOnServer(f)}
      /\ \A r \in RowsOf(downloaded_emails, f) :
           CopiesIn(r, downloaded_emails) = 1
      /\ {r.uid : r \in RowsOf(downloaded_emails, f)} =
           {r.uid : r \in RowsOf(snapshot.downloaded, f)} \cup NewOnServer(f)
      /\ NewOnServer(f) # {} =>
           get_max_uid(downloaded_emails, f) = Some(SetMax(server[f]))

\* a run without a failure has ended on a folder that had stored messages
\* and had new messages on the server
C27_Witness ==
  /\ pc = "done"
  /\ clean
  /\ \E f \in StoredBefore :
       /\ NewOnServer(f) # {}
       /\ \E u \in server[f] : u <= MaxBefore(f)

\* the DownloadedMessage rows of folder f
FolderRows(f) == {r \in BagToSet(downloaded_emails) : r.folder = f}

\* v is the largest uid among the rows of folder f
LargestOf(v, f) ==
  /\ \E r \in FolderRows(f) : r.uid = v
  /\ \A r \in FolderRows(f) : r.uid <= v

\* the criteria an enumeration of the folder at hand is to use
CriteriaDue ==
  IF FolderRows(folder) = {} THEN AllCriteria
  ELSE RangeCriteria(CHOOSE v \in UIDs : LargestOf(v, folder))

\* C28: maxKnownUid.  In every state and for every folder, get_max_uid is
\* none exactly when the store has no DownloadedMessage row of the folder,
\* and is otherwise the largest uid among the rows of that folder.  An
\* enumeration uses the full-folder criteria exactly when the store has no
\* row of the folder, and otherwise the range that starts above the largest
\* uid of the folder.
C28_MaxKnownUid ==
  /\ [](\A f \in Folders :
         LET m == get_max_uid(downloaded_emails, f)
         IN /\ m = None <=> FolderRows(f) = {}
            /\ m # None => LargestOf(ValueOf(m), f))
  /\ [][/\ (pc = "enumerate" /\ pc' = "batch_head") =>
             /\ last_fetch' = CriteriaDue
             /\ last_fetch'.criteria = "all" <=> FolderRows(folder) = {}
             /\ max_uid' = None <=> FolderRows(folder) = {}
             /\ max_uid' # None => LargestOf(ValueOf(max_uid'), folder)
        /\ (pc = "enumerate" /\ pc' # "killed" /\ last_fetch' # last_fetch) =>
             last_fetch' = CriteriaDue]_vars

\* an enumeration of a folder used the range above the largest uid of the
\* folder while another folder has a row with a larger uid
C28_Witness ==
  /\ pc = "batch_head"
  /\ max_uid # None
  /\ last_fetch = RangeCriteria(ValueOf(max_uid))
  /\ \E r \in BagToSet(downloaded_emails) :
       r.folder # folder /\ r.uid > ValueOf(max_uid)

\* the number of queued messages the end-of-run retry has not reached yet
ToRetry == Len(failed_emails) - (ridx - 1)

\* a step that brings the folder loop closer to its end: the folders are
\* taken in the order of the listing, each attempt on a folder counts up to
\* retry_limit, and the batches and messages of an attempt are taken in
\* their order
FolderLoopStep ==
  /\ pc' \notin {"idle", "killed"} => fidx' >= fidx
  /\ AttemptStarts => (attempt' = attempt + 1 /\ attempt' <= retry_limit)
  /\ (pc = "batch_head" /\ pc' = "batch_head") => bidx' = bidx + 1
  /\ (pc \in MsgPcs /\ pc' = "msg_head") => midx' = midx + 1

\* every step is one
FolderLoopProgress == [][FolderLoopStep]_vars

\* C29: Every sync run terminates (as claimed).  The folder loop gets
\* closer to its end with every step, and every end-of-run retry of a
\* message, whether it succeeds or fails, leaves fewer queued messages to
\* retry, so that the retry phase makes no more attempts than there were
\* messages queued when it began.
C29_Terminates ==
  [][/\ FolderLoopStep
     /\ RetryStep => ToRetry' < ToRetry]_vars

\* a step in which an attempt on the folder fails at folder level
AttemptFails ==
  /\ fidx <= Len(folders_to_process)
  /\ failedAttempts' = [failedAttempts EXCEPT ![folder] = @ + 1]

\* C30: Folder attempts are bounded.  In a run, an attempt on a folder
\* starts only when every earlier attempt on it has failed and there were
\* fewer than retry_limit = 3 of them, and the first attempt on a folder
\* starts once; an attempt that succeeds is followed by the next folder; a
\* backoff begins only with the failure of an attempt that is not the last
\* one and ends with the head of the next attempt; and when the folder loop
\* is over a folder is in failed_folders exactly when 3 attempts on it
\* failed.
C30_AttemptsBounded ==
  /\ [](/\ attempt <= retry_limit
        /\ \A f \in Folders : failedAttempts[f] <= retry_limit
        /\ pc = "backoff" =>
             (failedAttempts[folder] = attempt /\ attempt < retry_limit)
        /\ pc \in {"retry_head", "report", "done", "aborted"} =>
             \A f \in Folders :
               (f \in SeqToSet(failed_folders))
                 <=> (failedAttempts[f] = retry_limit))
  /\ [][/\ AttemptStarts =>
             /\ attempt' = attempt + 1
             /\ attempt' <= retry_limit
             /\ failedAttempts[folder] = attempt
             /\ attempt = 0 => folder \notin attempted
        /\ (pc = "batch_head" /\ bidx > Len(uid_batches) /\ pc' # "killed") =>
             (pc' = "folder_head" /\ fidx' = fidx + 1)
        /\ (pc # "backoff" /\ pc' = "backoff") =>
             (AttemptFails /\ attempt < retry_limit)
        /\ (AttemptFails /\ attempt < retry_limit) => pc' = "backoff"
        /\ (AttemptFails /\ attempt = retry_limit) => pc' = "attempt_head"
        /\ (pc = "backoff" /\ pc' \notin {"backoff", "killed"}) =>
             pc' = "attempt_head"]_vars

\* a run has ended in which a folder was stored by its third attempt, after
\* two failed attempts
C30_Witness ==
  /\ pc = "done"
  /\ \E f \in Folders :
       /\ failedAttempts[f] = retry_limit - 1
       /\ f \notin SeqToSet(failed_folders)
       /\ \A u \in server[f] : Stored(u, f)
       /\ server[f] # {}

\* the store that lines 611-636 leave of message u of folder f alone, on a
\* new database
NormalProcessing(u, f) == SyncMessages(EmptyStore, f, <<u>>, to_type)

\* the (uid, folder) the end-of-run retry went through that are stored
PersistedByRetry == {k \in BagToSet(retried) : Stored(k[1], k[2])}

\* the rows of the store `normal` are rows of the store
HasRowsOf(normal) ==
  /\ BagToSet(normal.downloaded) \subseteq BagToSet(downloaded_emails)
  /\ MessageRows(normal) \subseteq MessageRows(Store)
  /\ ParticipationRows(normal) \subseteq ParticipationRows(Store)

\* C31: Retry equals normal processing (as claimed).  When the end-of-run
\* retry is over, a message it went through and that is stored has the rows
\* the message loop gives a message: its DownloadedMessage row, its Message
\* row and its from, to, cc and bcc Participation rows.
C31_RetryAsNormal ==
  pc \in {"report", "done"} =>
    \A k \in PersistedByRetry : HasRowsOf(NormalProcessing(k[1], k[2]))

\* the DownloadedMessage row is what the retry does write
RetryWritesRawRow ==
  pc \in {"report", "done"} =>
    \A k \in PersistedByRetry :
      DownloadedRow(k[1], k[2]) \in BagToSet(downloaded_emails)

\* main returned by itself in a run whose login and listing succeeded
ReturnedAfterLogin == pc \in {"aborted", "done"} /\ mailbox > 0

\* every queued message went through the end-of-run retry
QueueRetried == Queue \subseteq BagToSet(retried)

\* C32: Retry and report always run (as claimed).  When main returns in a
\* run whose initial connection succeeded, it returns from the end of main,
\* after the end-of-run retry and the failed-folders report, and every
\* message queued in the run went through a retry attempt.
C32_RetryAlwaysRuns ==
  ReturnedAfterLogin => (pc = "done" /\ QueueRetried)

\* the part that holds: a run that reaches the end of main retried its queue
RetryCoversQueue == pc \in {"report", "done"} => QueueRetried

\* main returned with queued messages that no retry attempt was made for
QueueDropped == pc = "aborted" /\ mailbox > 0 /\ ~QueueRetried

\* the folders whose messages the step that main is about to take
\* enumerates, fetches or writes: the folder of the attempt in the folder
\* loop, the folder of the queued message in the end-of-run retry
FoldersInWork ==
  IF pc \in ({"enumerate"} \cup AttemptPcs)
  THEN {folder}
  ELSE IF pc = "retry_head" /\ ridx <= Len(failed_emails)
       THEN {failed_emails[ridx][2]}
       ELSE {}

\* the folders that get a DownloadedMessage row or a Message row in a step
FoldersWritten ==
  {f \in Folders :
     \/ RowsOf(downloaded_emails', f) # RowsOf(downloaded_emails, f)
     \/ {r \in email' : r.folder = f} # {r \in email : r.folder = f}}

\* C33: Validation first.  In every run, the folder whose messages main
\* enumerates or fetches, in a first attempt, in a later attempt or in the
\* end-of-run retry, is a folder whose UIDVALIDITY check succeeded in the
\* run; an attempt starts for such folders only, messages are queued for
\* such folders only, and a step of the run writes rows of such folders only.
C33_ValidatedFirst ==
  /\ [](/\ FoldersInWork \subseteq validated
        /\ attempted \subseteq validated
        /\ \A k \in Queue : k[2] \in validated)
  /\ [][FoldersWritten \subseteq validated]_vars

\* a run is over in which a later attempt for INBOX stored a message and the
\* end-of-run retry stored another one
C33_Witness ==
  /\ pc = "done"
  /\ failedAttempts["INBOX"] >= 1
  /\ \E k \in PersistedByRetry :
       /\ k[2] = "INBOX"
       /\ \E u \in 1..MaxUid : u # k[1] /\ Stored(u, "INBOX")

\* the folder f and the folders listed after it
ListedFrom(f) ==
  {folders_to_process[j] :
     j \in {i \in 1..Len(folders_to_process) :
              \E h \in 1..i : folders_to_process[h] = f}}

\* the rows of folder g in the store st: DownloadedMessage rows, Message rows
\* and Participation rows
RowsFor(st, g) ==
  <<RowsOf(st.downloaded, g),
    {r \in MessageRows(st) : r[2] = g},
    {r \in ParticipationRows(st) : r[2] = g}>>

\* the server reports the changed UIDVALIDITY of folder f
StillChanged(f) == serverUv[f] = 200

\* C34: A skew is permanent.  For a folder F at which an earlier run halted
\* on a UIDVALIDITY mismatch and whose changed value the server still
\* reports: the stored value of F is the one of before the change; a check
\* of F that gets a UIDVALIDITY from the server ends in the mismatch again;
\* the folder loop never works on a folder listed after F; neither F nor a
\* folder listed after F is validated or attempted, or gets a row that the
\* store did not hold when the run started.
C34_SkewPermanent ==
  \A f \in halted :
    StillChanged(f) =>
      /\ folder_uidvalidity[f] = Some(100)
      /\ (lastCheck.folder = f /\ lastCheck.result \in {"ok", "skew"}) =>
           (lastCheck.result = "skew" /\ skewed)
      /\ (pc \in FolderPcs /\ fidx <= Len(folders_to_process)) =>
           (folder = f \/ folder \notin ListedFrom(f))
      /\ \A g \in ListedFrom(f) :
           /\ g \notin validated
           /\ g \notin attempted
           /\ RowsFor(Store, g) = RowsFor(snapshot, g)

\* the third run is over: it stored a new message of INBOX and halted at
\* Sent, where the second run had halted, and the message that Sent holds
\* on the server is not stored
C34_Witness ==
  /\ pc = "done"
  /\ runNo = 3
  /\ "Sent" \in halted
  /\ skewed
  /\ lastCheck.folder = "Sent"
  /\ RowsOf(downloaded_emails, "INBOX") # RowsOf(snapshot.downloaded, "INBOX")
  /\ \E u \in server["Sent"] : ~Stored(u, "Sent")

\* the UIDs with a row of INBOX when the recovery started
StoredAtStart == {r.uid : r \in RowsOf(snapshot.downloaded, "INBOX")}

\* the attempts made for the batch of index b, as indexes of the history
AttemptsFor(b) ==
  {i \in 1..Len(recover.attempts) : recover.attempts[i].batch = b}

\* the batch of index b was given up: recover_retry_limit attempts, all failed
GivenUp(b) ==
  /\ Cardinality(AttemptsFor(b)) = recover_retry_limit
  /\ \A i \in AttemptsFor(b) : recover.attempts[i].result = "failed"

\* an attempt for the batch of index b got to the end of its fetch
Succeeded(b) ==
  \E i \in AttemptsFor(b) : recover.attempts[i].result = "ok"

\* C35: Targeted recovery.  The UIDs given to a fetch are UIDs of the
\* missing list that had no row of INBOX when the recovery started, and the
\* batches are those UIDs in the order of the list, at most the batch size
\* each; the i-th attempt is made on the i-th connection, so that no
\* connection serves two attempts; a batch has at most three attempts, made
\* before those of the next batch, and none after an attempt that succeeded;
\* when the loop over the batches is over, every batch has an attempt that
\* succeeded or three attempts that failed, the batches after one given up
\* included.
C35_Recovery ==
  LET at == recover.attempts
      NotStored(u) == u \notin StoredAtStart
  IN /\ recover.pc \notin {"off", "start"} =>
          /\ recover.to_fetch = SelectSeq(recover.all_missing_uids, NotStored)
          /\ Concat(recover.batches) = recover.to_fetch
          /\ \A b \in 1..Len(recover.batches) :
               Len(recover.batches[b]) \in 1..RecoverBatchSize
     /\ \A i \in 1..Len(at) :
          /\ at[i].mailbox = i
          /\ at[i].batch \in 1..Len(recover.batches)
          /\ at[i].uids \in {<<>>, recover.batches[at[i].batch]}
          /\ at[i].result = "ok" => at[i].uids = recover.batches[at[i].batch]
          /\ SeqToSet(at[i].uids) \subseteq
               SeqToSet(recover.all_missing_uids) \ StoredAtStart
     /\ \A b \in 1..Len(recover.batches) :
          Cardinality(AttemptsFor(b)) <= recover_retry_limit
     /\ \A i, j \in 1..Len(at) :
          i < j => /\ at[i].batch <= at[j].batch
                   /\ at[i].batch = at[j].batch => at[i].result = "failed"
     /\ recover.pc \in {"finish", "done"} =>
          \A b \in 1..Len(recover.batches) : Succeeded(b) \/ GivenUp(b)

\* the recovery is over: a UID of the list was left out as stored, the first
\* batch was given up after three attempts, and an attempt for the second
\* batch stored a message
C35_Witness ==
  /\ recover.pc = "done"
  /\ SeqToSet(recover.all_missing_uids) \cap StoredAtStart # {}
  /\ Len(recover.batches) = 2
  /\ GivenUp(1)
  /\ Succeeded(2)
  /\ \E u \in SeqToSet(recover.batches[2]) :
       u \notin StoredAtStart /\ Stored(u, "INBOX")

====
